---------------------------- MODULE Spec2Model ----------------------------
(***************************************************************************)
(* A model of the zipper-merge traffic engine: the road grid (road.js),    *)
(* the vehicle (Car) and the decision helpers (getDistance, canMerge,      *)
(* effectSpeed, effectMergeState, ...), and the stepper (driveCars).       *)
(*                                                                         *)
(* Numbers.  JavaScript numbers that are not whole (traits, seconds,       *)
(* speeds in ft/s, distances in ft, urgency) are kept as fixed-point       *)
(* integers in thousandths: 66 ft/s is 66000, urgency 0.7 is 700.  Every   *)
(* product of two such values is divided by 1000 and rounded down, so      *)
(* every intermediate value carries three decimals.  Cell counts, lane     *)
(* and position indices, milliseconds and counters are plain integers.     *)
(*                                                                         *)
(* Grid cells hold null (-1), 0 (a blockage, as in the source) or the      *)
(* identity of a car (1, 2, ...).                                          *)
(***************************************************************************)
EXTENDS Integers, Sequences, FiniteSets, TLC

VARIABLES
    roadSpace,      \* Road.roadSpace: lane index -> position -> cell
    cars,           \* Road.cars: the list of car identities
    blockedLanes,   \* Road.blockedLanes
    trails,         \* Road.trails: expiry timestamps
    completedCars,  \* Road.completedCars: completion records
    car,            \* the Car objects: identity -> fields
    now,            \* the wall clock, new Date().getTime(), in ms
    nextId,         \* identity of the next Car constructed
    log,            \* what each car driven in the last tick saw and did
    call,           \* the last direct Road API call and what it returned
    probe,          \* input and output of the last pure-function evaluation
    sim             \* the Simulation: running, its timer ids, the timers set

vars == <<roadSpace, cars, blockedLanes, trails, completedCars, car, now,
          nextId, log, call, probe, sim>>

----------------------------------------------------------------------------
(* Program constants *)

ROAD_WIDTH == 50
BLOCK_START == 40
CAR_TRAIL_LIFESPAN == 10000

FOLLOWING_DISTANCE_MID == 3000
FOLLOWING_DISTANCE_LOW == 200
FOLLOWING_DISTANCE_HIGH == 5000

MERGE_DISTANCE_MID == 25000
MERGE_DISTANCE_LOW == 50000
MERGE_DISTANCE_HIGH == 2000

MERGE_GAP_MID == 1500
MERGE_GAP_LOW == 800
MERGE_GAP_HIGH == 3000

MERGE_SPACE_MID == 3000
MERGE_SPACE_LOW == 1000
MERGE_SPACE_HIGH == 5000

MAX_SPEED == 66000

RUBBERNECK_SPEED_FACTOR == 850
RUBBERNECK_ZONE_LENGTH == 8

\* options.spaceSize ?? 15: the cell length in feet
spaceSize == 15

\* State
Default == "DEFAULT"
Merge == "MERGE"
Yield == "YIELD"
Right == "RIGHT"

\* SpaceType
Cars == "CARS"
Blockage == "BLOCKAGE"
All == "ALL"
Empty == "EMPTY"

\* Cell contents
null == -1
BLOCKED == 0

----------------------------------------------------------------------------
(* Bounds of the model *)

\* Cars constructed in one run
MaxCars == 2
\* The clock stops the run after this many seconds
MaxTime == 16
\* Traits a spawned car may draw (randomBoundedNormal yields [0,1])
MergeTendencies == {0, 1000}
Cooperations == {0, 1000}
Aggressivenesses == {0, 1000}
\* Elapsed milliseconds between two ticks
Elapsed == {2000}
\* Elapsed milliseconds between two ticks of the single-vehicle scenario
ElapsedAlone == {200, 1000, 2000}
\* Inputs of the trait transform that are evaluated, in thousandths
Inputs == { 50 * i : i \in 0..20 }
\* Road shapes constructed: <<lanes, blockedLanes>>
Shapes == {<<2, 1>>, <<3, 1>>, <<3, 2>>}

CarIds == 1..MaxCars
\* Seconds after which no vehicle is spawned any more
SpawnUntil == 4
\* Seconds the simulation is followed for after spawning stopped
DrainTime == 80
\* Milliseconds between two ticks while the road drains
ElapsedDrain == {2000}
\* Seconds the three timers are followed for
TimersTime == 26
\* The clock stops the run with close ticks after this many seconds
CloseTime == 4
\* Elapsed milliseconds between two close ticks
ElapsedClose == {500}
\* start, stop and reset are called at most this many times in all
MaxCalls == 4
\* The clock stops the run of the started and stopped simulation after this
\* many seconds
SimTime == 6

----------------------------------------------------------------------------
(* Arithmetic helpers *)

Min2(a, b) == IF a <= b THEN a ELSE b
Max2(a, b) == IF a >= b THEN a ELSE b
MinOf(S) == CHOOSE x \in S : \A y \in S : x <= y
MaxOf(S) == CHOOSE x \in S : \A y \in S : x >= y
\* The product of two fixed-point values
Mul(a, b) == (a * b) \div 1000
\* Math.ceil of n / d for d > 0
CeilDiv(n, d) == -((-n) \div d)

isCar(cell) == cell >= 1


----------------------------------------------------------------------------
(* part_000: the trait transform and the Car methods.  cd is the heap of   *)
(* Car objects (identity -> fields), rs a roadSpace, bl Road.blockedLanes. *)

\* getValueFromNormalized(input, low, mid, high): input / 0.5 is 2 * input
getValueFromNormalized(input, low, mid, high) ==
    IF input = mid THEN mid
    ELSE IF input < mid THEN low + Mul(2 * input, mid - low)
    ELSE mid + Mul(2 * (input - 500), high - mid)

\* new Car(mergeTendency, cooperation, aggressiveness, laneNumber)
NewCar(mergeTendency, cooperation, aggressiveness, laneNumber) ==
    [ mergeTendency |-> mergeTendency,
      cooperation |-> cooperation,
      aggressiveness |-> aggressiveness,
      laneNumber |-> laneNumber,
      lanePosX |-> 0,
      state |-> Default,
      speed |-> MAX_SPEED,
      carsLetIn |-> 0,
      followingDistance |->
          getValueFromNormalized(aggressiveness, FOLLOWING_DISTANCE_LOW,
                                 FOLLOWING_DISTANCE_MID, FOLLOWING_DISTANCE_HIGH),
      indicator |-> FALSE,
      lastMoved |-> -1,
      distance |-> 0,
      startTime |-> 0,
      startLane |-> laneNumber ]

\* The slot of a Car that is not constructed yet or was dropped by the road
NoCar == NewCar(0, 0, 0, -1)

\* Car.getDesiredMergeGap, in seconds
getDesiredMergeGap(c) ==
    getValueFromNormalized(c.aggressiveness, MERGE_GAP_LOW, MERGE_GAP_MID,
                           MERGE_GAP_HIGH)

\* getDesiredMergeSpace taking the smaller of the two requirements
getDesiredMergeSpaceSmaller(c, size, urgencyFactor) ==
    LET gapSeconds == Mul(getDesiredMergeGap(c), urgencyFactor)
        ceilSpacesNeeded == CeilDiv(c.speed * gapSeconds, 1000000 * size)
        minSpaces == getValueFromNormalized(c.aggressiveness, MERGE_SPACE_LOW,
                                            MERGE_SPACE_MID, MERGE_SPACE_HIGH)
    IN  Min2(minSpaces, 1000 * ceilSpacesNeeded)

\* Car.getDesiredMergeSpace(road, urgencyFactor), in cells (fixed-point).
\* size is road.getSpaceSize(), or 15 when no road is passed.
getDesiredMergeSpace(c, size, urgencyFactor) ==
    LET gapSeconds == Mul(getDesiredMergeGap(c), urgencyFactor)
        ceilSpacesNeeded == CeilDiv(c.speed * gapSeconds, 1000000 * size)
        minSpaces == getValueFromNormalized(c.aggressiveness, MERGE_SPACE_LOW,
                                            MERGE_SPACE_MID, MERGE_SPACE_HIGH)
    IN  Max2(minSpaces, 1000 * ceilSpacesNeeded)

\* Car.getDesiredMergingDistance, in cells (fixed-point)
getDesiredMergingDistance(c) ==
    getValueFromNormalized(c.mergeTendency, MERGE_DISTANCE_LOW,
                           MERGE_DISTANCE_MID, MERGE_DISTANCE_HIGH)

\* Car.getCarQuota: Math.round(cooperation * (blockedLanes - lane))
getCarQuota(c, bl) ==
    (c.cooperation * (bl - c.laneNumber) + 500) \div 1000

\* adjustSpeedBy without the upper clamp
adjustSpeedByUnbounded(c, amount) ==
    LET effected == c.speed + amount
    IN  IF effected <= 0 THEN 0 ELSE effected

\* Car.adjustSpeedBy(amount): the speed afterwards
adjustSpeedBy(c, amount) ==
    LET effected == c.speed + amount
    IN  IF effected >= MAX_SPEED THEN MAX_SPEED
        ELSE IF effected <= 0 THEN 0
        ELSE effected

----------------------------------------------------------------------------
(* part_001: the decision helpers *)

\* The cells of laneData after laneX that end a scan for targetSpace
matching(laneData, laneX, targetSpace) ==
    IF targetSpace = All
    THEN { space \in (laneX + 1)..(ROAD_WIDTH - 1) : laneData[space] # null }
    ELSE IF targetSpace = Blockage
    THEN { space \in (laneX + 1)..(ROAD_WIDTH - 1) : laneData[space] = BLOCKED }
    ELSE IF targetSpace = Cars
    THEN { space \in (laneX + 1)..(ROAD_WIDTH - 1) : isCar(laneData[space]) }
    ELSE {}

\* firstOf counting from cell laneX instead of cell laneX + 1
firstOfFrom(cells, laneX) ==
    IF cells = {} THEN 100
    ELSE (CHOOSE space \in cells : \A other \in cells : space <= other) - laneX

\* What a scan from cell laneX + 1 returns when these cells end it: the
\* offset of the first of them, or 100 when there is none
firstOf(cells, laneX) ==
    IF cells = {} THEN 100
    ELSE (CHOOSE space \in cells : \A other \in cells : space <= other)
         - (laneX + 1)

\* getDistance(road, lane, laneX, targetSpace); every lane is ROAD_WIDTH long
getDistance(rs, lane, laneX, targetSpace) ==
    IF lane \notin DOMAIN rs THEN -1
    ELSE IF laneX + 1 >= ROAD_WIDTH THEN -2
    ELSE firstOf(matching(rs[lane], laneX, targetSpace), laneX)

\* The loop of getLeftOpenSpaces that counts the open cells behind: from
\* laneX down to the first cell that is not null, or to cell 0
countBehind(leftLaneData, laneX) ==
    laneX - MaxOf({0} \cup { i \in 0..laneX : leftLaneData[i] # null })

\* The survey getLeftOpenSpaces starts from
laneOpenings == [ left_ahead |-> 0, left_beside |-> 0, left_behind |-> 0,
                  valid |-> TRUE ]

\* getLeftOpenSpaces(road, lane, laneX).  The number -1 it returns for a bad
\* lane is the record with valid = FALSE: its three fields read as undefined.
getLeftOpenSpaces(rs, lane, laneX) ==
    IF lane \notin DOMAIN rs THEN [laneOpenings EXCEPT !.valid = FALSE]
    ELSE IF lane <= 0 THEN laneOpenings
    ELSE LET laneSize == ROAD_WIDTH
             leftLaneData == rs[lane - 1]
             leftLaneSize == ROAD_WIDTH
             aheadSpaces == getDistance(rs, lane - 1, laneX, All)
         IN  IF leftLaneSize # laneSize THEN [laneOpenings EXCEPT !.valid = FALSE]
             ELSE IF laneX >= laneSize - 1 THEN laneOpenings
             ELSE IF leftLaneData[laneX] # null THEN laneOpenings
             ELSE [ left_ahead |-> IF aheadSpaces >= 0 THEN aheadSpaces ELSE 0,
                    left_beside |-> 1,
                    left_behind |-> countBehind(leftLaneData, laneX),
                    valid |-> TRUE ]

\* urgencyAt without the Math.max of its last band
urgencyAtUnfloored(distanceToBlockage) ==
    IF distanceToBlockage >= 20 THEN 1000
    ELSE IF distanceToBlockage >= 10 THEN 700 + (distanceToBlockage - 10) * 30
    ELSE IF distanceToBlockage >= 5 THEN 500 + (distanceToBlockage - 5) * 40
    ELSE 300 + (distanceToBlockage - 2) * 67

\* The banded factor of getMergeUrgency for a distance to the blockage
urgencyAt(distanceToBlockage) ==
    IF distanceToBlockage >= 20 THEN 1000
    ELSE IF distanceToBlockage >= 10 THEN 700 + (distanceToBlockage - 10) * 30
    ELSE IF distanceToBlockage >= 5 THEN 500 + (distanceToBlockage - 5) * 40
    ELSE Max2(300, 300 + (distanceToBlockage - 2) * 67)

\* getMergeUrgency(car, road)
getMergeUrgency(rs, c) ==
    LET distanceToBlockage == getDistance(rs, c.laneNumber, c.lanePosX, Blockage)
    IN  IF distanceToBlockage < 0 \/ distanceToBlockage >= 100 THEN 1000
        ELSE urgencyAt(distanceToBlockage)

\* getLeft10AverageSpeed(car, road)
getLeft10AverageSpeed(rs, cd, c) ==
    IF c.laneNumber <= 0 THEN -1
    ELSE LET leftLane == rs[c.laneNumber - 1]
             roadWidth == ROAD_WIDTH
             checkStart == Max2(0, c.lanePosX - 5)
             checkEnd == Min2(roadWidth, c.lanePosX + 5)
             found == { i \in checkStart..(checkEnd - 1) : isCar(leftLane[i]) }
             Sum[S \in SUBSET found] ==
                 IF S = {} THEN 0
                 ELSE LET i == MinOf(S) IN cd[leftLane[i]].speed + Sum[S \ {i}]
         IN  IF found = {} THEN -1
             ELSE Sum[found] \div Cardinality(found)

\* checkUnderCarLeftQuota(car, road, spaces); a survey that is not valid has
\* no left_behind, which passes every comparison up to the lane test
checkUnderCarLeftQuota(rs, cd, bl, c, spaces) ==
    LET totLanes == Cardinality(DOMAIN rs)
        carLane == c.laneNumber
        laneXCheck == c.lanePosX - spaces.left_behind
        target == rs[carLane - 1][laneXCheck]
    IN  IF spaces.valid /\ spaces.left_behind <= 0 THEN TRUE
        ELSE IF carLane <= 0 \/ carLane >= totLanes THEN TRUE
        ELSE IF ~spaces.valid THEN TRUE
        ELSE IF laneXCheck < 0 \/ carLane - 1 >= ROAD_WIDTH THEN TRUE
        ELSE IF isCar(target)
             THEN cd[target].carsLetIn < getCarQuota(cd[target], bl)
             ELSE TRUE

\* canMergeUrgent with the return of line 201 in force: false when the quota
\* check fails and the left lane is not fast, the blocked lanes being those
\* whose last cell is a blockage
canMergeUrgentGated(rs, cd, c, urgencyFactor) ==
    LET desired0 == getDesiredMergeSpace(c, spaceSize, urgencyFactor)
        leftSpeed == getLeft10AverageSpeed(rs, cd, c)
        desiredSpaces ==
            IF leftSpeed >= 0 /\ leftSpeed <= 1000 /\ desired0 > 2000
            THEN 2000 ELSE desired0
        spaces == getLeftOpenSpaces(rs, c.laneNumber, c.lanePosX)
        totSpaces == spaces.left_ahead + spaces.left_behind + spaces.left_beside
        bl == Cardinality({ l \in DOMAIN rs : rs[l][ROAD_WIDTH - 1] = BLOCKED })
    IN  /\ checkUnderCarLeftQuota(rs, cd, bl, c, spaces)
           \/ 2 * leftSpeed > MAX_SPEED
        /\ spaces.valid
        /\ 1000 * totSpaces >= desiredSpaces

\* canMergeUrgent without the reduction to 2 cells in slow traffic
canMergeUrgentUnreduced(rs, cd, c, urgencyFactor) ==
    LET desiredSpaces == getDesiredMergeSpace(c, spaceSize, urgencyFactor)
        spaces == getLeftOpenSpaces(rs, c.laneNumber, c.lanePosX)
        totSpaces == spaces.left_ahead + spaces.left_behind + spaces.left_beside
    IN  spaces.valid /\ 1000 * totSpaces >= desiredSpaces

\* canMerge(car, road) from line 190 on, urgencyFactor being the urgency
\* getMergeUrgency returned
canMergeUrgent(rs, cd, c, urgencyFactor) ==
    LET desired0 == getDesiredMergeSpace(c, spaceSize, urgencyFactor)
        leftSpeed == getLeft10AverageSpeed(rs, cd, c)
        desiredSpaces ==
            IF leftSpeed >= 0 /\ leftSpeed <= 1000 /\ desired0 > 2000
            THEN 2000 ELSE desired0
        spaces == getLeftOpenSpaces(rs, c.laneNumber, c.lanePosX)
        totSpaces == spaces.left_ahead + spaces.left_behind + spaces.left_beside
    IN  spaces.valid /\ 1000 * totSpaces >= desiredSpaces

\* canMerge refusing every merge
canMergeNever(rs, cd, c) == FALSE

\* canMerge(car, road)
canMerge(rs, cd, c) == canMergeUrgent(rs, cd, c, getMergeUrgency(rs, c))

\* What a call of canMerge(car, road) comes to: 1 for true, 0 for false, and
\* Raised when line 337 of getLeft10AverageSpeed reads the length of a left
\* lane that is not in the grid (a TypeError no caller catches)
Raised == 2
canMergeOutcome(rs, cd, c) ==
    IF c.laneNumber > 0 /\ (c.laneNumber - 1) \notin DOMAIN rs THEN Raised
    ELSE IF canMerge(rs, cd, c) THEN 1 ELSE 0

\* shouldLetCarIn(car, road)
shouldLetCarIn(rs, cd, bl, c) ==
    LET currentLane == c.laneNumber
        currentLaneX == c.lanePosX
        totLanes == Cardinality(DOMAIN rs)
    IN  IF c.carsLetIn >= getCarQuota(c, bl) THEN FALSE
        ELSE IF currentLane >= totLanes - 1 THEN FALSE
        ELSE LET nextLaneOver == rs[currentLane + 1]
                 roadWidth == ROAD_WIDTH
                 ahead == getDistance(rs, currentLane + 1, currentLaneX + 1, All)
                 distanceAhead == IF ahead < 0 THEN roadWidth ELSE ahead
                 roadXComp == Min2(roadWidth, currentLaneX + 1 + distanceAhead)
             IN  IF currentLaneX + 1 >= roadWidth - 1 THEN FALSE
                 ELSE \E i \in (currentLaneX + 1)..roadXComp :
                         /\ i \in DOMAIN nextLaneOver
                         /\ isCar(nextLaneOver[i])
                         /\ cd[nextLaneOver[i]].indicator

\* Car.getDesiredDistance(road), in feet
getDesiredDistance(rs, cd, bl, c) ==
    IF shouldLetCarIn(rs, cd, bl, c)
    THEN getDesiredMergeSpace(c, 15, 1000) * spaceSize
    ELSE Mul(c.speed, c.followingDistance)

\* isInRubberneckZone(car, road)
isInRubberneckZone(rs, bl, c) ==
    IF c.laneNumber >= Cardinality(DOMAIN rs) - bl THEN FALSE
    ELSE c.lanePosX >= BLOCK_START
         /\ c.lanePosX < BLOCK_START + RUBBERNECK_ZONE_LENGTH

\* effectSpeed(car, road): the car's speed afterwards
effectSpeed(rs, cd, bl, c) ==
    LET desiredDistance == getDesiredDistance(rs, cd, bl, c)
        actualDistanceSpaces == getDistance(rs, c.laneNumber, c.lanePosX, All)
        actualDistanceFeet == 1000 * actualDistanceSpaces * spaceSize
        difference0 == actualDistanceFeet - desiredDistance
        leftLaneSpeed == getLeft10AverageSpeed(rs, cd, c)
        speedMatchAdjustment == Mul(leftLaneSpeed - c.speed, 300)
        speedMatchWeight == 1000 - getMergeUrgency(rs, c)
        difference1 ==
            IF c.state = Merge /\ leftLaneSpeed >= 0
            THEN Mul(difference0, 1000 - speedMatchWeight)
                 + Mul(speedMatchAdjustment, speedMatchWeight) * 10
            ELSE difference0
        depthInZone == ((c.lanePosX - BLOCK_START) * 1000) \div RUBBERNECK_ZONE_LENGTH
        rubberneckIntensity == 1000 - depthInZone
        targetSpeed ==
            Mul(c.speed, RUBBERNECK_SPEED_FACTOR
                         + Mul(1000 - RUBBERNECK_SPEED_FACTOR, depthInZone))
        rubberneckAdjustment == targetSpeed - c.speed
        difference2 ==
            IF isInRubberneckZone(rs, bl, c)
            THEN difference1 + Mul(rubberneckAdjustment, rubberneckIntensity)
            ELSE difference1
    IN  IF actualDistanceSpaces < 0 THEN c.speed
        ELSE adjustSpeedBy(c, difference2)

\* effectMergeState yielding where the blockage is far
effectMergeStateYield(rs, c) ==
    LET desiredMergingDistance == getDesiredMergingDistance(c)
        distanceToMerge == getDistance(rs, c.laneNumber, c.lanePosX, Blockage)
        difference == 1000 * distanceToMerge - desiredMergingDistance
    IN  IF difference <= 0 THEN Merge ELSE Yield

\* effectMergeState(car, road): the car's state afterwards
effectMergeState(rs, c) ==
    LET desiredMergingDistance == getDesiredMergingDistance(c)
        distanceToMerge == getDistance(rs, c.laneNumber, c.lanePosX, Blockage)
        difference == 1000 * distanceToMerge - desiredMergingDistance
    IN  IF difference <= 0 THEN Merge ELSE Default

----------------------------------------------------------------------------
(* road.js: the Road.  An operation that changes the grid and the cars     *)
(* takes both and returns both (with what it returned as ret).  A value    *)
(* computed once in the source and used several times is handed on as a    *)
(* parameter of a following definition.                                    *)

\* indexOf answering with the last index of the array
indexOfEnd(s, x) == Len(s) - 1

\* Array.indexOf, 0-based, -1 when absent
indexOf(s, x) ==
    IF \E i \in 1..Len(s) : s[i] = x
    THEN MinOf({ i \in 1..Len(s) : s[i] = x }) - 1
    ELSE -1

\* Array.splice(item, 1), item 0-based
splice(s, item) ==
    [ i \in 1..(Len(s) - 1) |-> IF i <= item THEN s[i] ELSE s[i + 1] ]

\* placeBlockage blocking the lanes of lowest index
placeBlockageLeft(lanes, lanesToBlock) ==
    [ i \in 0..(lanes - 1) |->
        [ j \in 0..(ROAD_WIDTH - 1) |->
            IF lanes > lanesToBlock /\ i < lanesToBlock /\ j >= BLOCK_START
            THEN BLOCKED ELSE null ] ]

\* new Array(lanes) of new Array(ROAD_WIDTH).fill(null), then placeBlockage
\* when it blocks (roadSpace.length > lanesToBlock)
placeBlockage(lanes, lanesToBlock) ==
    [ i \in 0..(lanes - 1) |->
        [ j \in 0..(ROAD_WIDTH - 1) |->
            IF lanes > lanesToBlock /\ i >= lanes - lanesToBlock /\ j >= BLOCK_START
            THEN BLOCKED ELSE null ] ]

\* The constructor building the grid whatever the counts are
RoadUnchecked(lanes, lanesToBlock) ==
    [ roadSpace |-> placeBlockage(lanes, lanesToBlock),
      blockedLanes |-> lanesToBlock ]

\* new Road(lanes, blockedLanes, spaceSize): the fields roadSpace and
\* blockedLanes, which keep their initial values [] and 0 when the
\* constructor returns at its first line
Road(lanes, lanesToBlock) ==
    IF lanes < 2 \/ lanesToBlock >= lanes
    THEN [ roadSpace |-> << >>, blockedLanes |-> 0 ]
    ELSE [ roadSpace |-> placeBlockage(lanes, lanesToBlock),
           blockedLanes |-> lanesToBlock ]

\* Road.getRandomLane: the lanes it may return ({} when it returns -1)
openLanes(rs) == { i \in DOMAIN rs : rs[i][0] = null }

\* getRandomLane choosing among all the lanes of the grid
getRandomLaneAny(rs) ==
    IF DOMAIN rs = {} THEN {-1} ELSE DOMAIN rs

\* Road.getRandomLane(): the values it may return, -1 when no lane is open
getRandomLane(rs) ==
    IF openLanes(rs) = {} THEN {-1} ELSE openLanes(rs)

\* addCar pushing the car on the list twice
addCarTwice(rs, cars0, cd, id, c, lane, currentTime) ==
    IF lane < 0 \/ lane \notin DOMAIN rs
    THEN [rs |-> rs, cars |-> cars0, cd |-> cd]
    ELSE [ rs |-> [rs EXCEPT ![lane][0] = id],
           cars |-> Append(Append(cars0, id), id),
           cd |-> [cd EXCEPT ![id] =
                      [c EXCEPT !.laneNumber = lane, !.lanePosX = 0,
                                !.startTime = currentTime,
                                !.startLane = lane]] ]

\* Road.addCar(car) for the Car c kept under id, lane being what its call of
\* getRandomLane returned; the result is [rs, cars, cd]
addCar(rs, cars0, cd, id, c, lane, currentTime) ==
    IF lane < 0 \/ lane \notin DOMAIN rs
    THEN [rs |-> rs, cars |-> cars0, cd |-> cd]
    ELSE [ rs |-> [rs EXCEPT ![lane][0] = id],
           cars |-> Append(cars0, id),
           cd |-> [cd EXCEPT ![id] =
                      [c EXCEPT !.laneNumber = lane, !.lanePosX = 0,
                                !.startTime = currentTime,
                                !.startLane = lane]] ]

\* Car.alertMerge
alertMerge(cd, id) == [cd EXCEPT ![id].carsLetIn = @ + 1]

\* alertRearDriver(car, road, newLane): the cars afterwards
alertRearDriver(rs, cd, id, newLane) ==
    LET currentLaneX == cd[id].lanePosX
        behind == { i \in 0..(currentLaneX - 1) : isCar(rs[newLane][i]) }
    IN  IF newLane < 0 \/ newLane >= Cardinality(DOMAIN rs) THEN cd
        ELSE IF currentLaneX <= 0 THEN cd
        ELSE IF behind = {} THEN cd
        ELSE alertMerge(cd, rs[newLane][MaxOf(behind)])

\* Road.setCarPos from line 272 on: the old cell is cleared in rs1 and the
\* alerts are delivered in cd1
setCarPosPlace(rs1, cd1, id, lane, laneX) ==
    IF rs1[lane][laneX] # null
    THEN [rs |-> rs1, cd |-> cd1, ret |-> -1]
    ELSE [ rs |-> [rs1 EXCEPT ![lane][laneX] = id],
           cd |-> [cd1 EXCEPT ![id].laneNumber = lane, ![id].lanePosX = laneX],
           ret |-> 0 ]

\* setCarPos without line 272: the cell the car leaves keeps its reference
setCarPosKeeping(rs, cd, id, lane, laneX) ==
    LET numberOfLanes == Cardinality(DOMAIN rs)
        currentLane == cd[id].laneNumber
        currentLaneX == cd[id].lanePosX
    IN  IF lane >= numberOfLanes \/ laneX >= ROAD_WIDTH
        THEN [rs |-> rs, cd |-> cd, ret |-> -1]
        ELSE IF currentLane >= numberOfLanes \/ currentLaneX >= ROAD_WIDTH
        THEN [rs |-> rs, cd |-> cd, ret |-> -1]
        ELSE setCarPosPlace(
                 rs,
                 IF currentLane # lane
                 THEN alertMerge(alertRearDriver(rs, cd, id, lane), id)
                 ELSE cd,
                 id, lane, laneX)

\* Road.setCarPos(car, lane, laneX)
setCarPos(rs, cd, id, lane, laneX) ==
    LET numberOfLanes == Cardinality(DOMAIN rs)
        currentLane == cd[id].laneNumber
        currentLaneX == cd[id].lanePosX
    IN  IF lane >= numberOfLanes \/ laneX >= ROAD_WIDTH
        THEN [rs |-> rs, cd |-> cd, ret |-> -1]
        ELSE IF currentLane >= numberOfLanes \/ currentLaneX >= ROAD_WIDTH
        THEN [rs |-> rs, cd |-> cd, ret |-> -1]
        ELSE setCarPosPlace(
                 [rs EXCEPT ![currentLane][currentLaneX] = null],
                 IF currentLane # lane
                 THEN alertMerge(alertRearDriver(rs, cd, id, lane), id)
                 ELSE cd,
                 id, lane, laneX)

\* merge that leaves the car in its lane
mergeStaying(rs, cd, id) == [rs |-> rs, cd |-> cd, ret |-> 0]

\* merge into the cell ahead of the cell beside the car
mergeAhead(rs, cd, id) ==
    LET currentLane == cd[id].laneNumber
        currentLaneX == cd[id].lanePosX
    IN  IF currentLane - 1 < 0 THEN [rs |-> rs, cd |-> cd, ret |-> 0]
        ELSE IF /\ currentLaneX + 1 < ROAD_WIDTH
                /\ rs[currentLane - 1][currentLaneX + 1] = null
        THEN setCarPos(rs, cd, id, currentLane - 1, currentLaneX + 1)
        ELSE [rs |-> rs, cd |-> cd, ret |-> 0]

\* Road.merge(car)
merge(rs, cd, id) ==
    LET currentLane == cd[id].laneNumber
        currentLaneX == cd[id].lanePosX
    IN  IF currentLane - 1 < 0 THEN [rs |-> rs, cd |-> cd, ret |-> 0]
        ELSE IF rs[currentLane - 1][currentLaneX] = null
        THEN setCarPos(rs, cd, id, currentLane - 1, currentLaneX)
        ELSE [rs |-> rs, cd |-> cd, ret |-> 0]

\* Car.drive, lines 136-138: the car after it moved on and set its speed
driveSpeed(rs, cd, bl, id, c1) ==
    [c1 EXCEPT !.speed = effectSpeed(rs, [cd EXCEPT ![id] = c1], bl, c1)]

\* driveState with the turn signal taken from the state before the update
driveStateStale(rs, c2, currentTime, state) ==
    [c2 EXCEPT !.state = state, !.lastMoved = currentTime,
               !.indicator = (c2.state = Merge)]

\* Car.drive, lines 139-143: state, timestamp and turn signal of car c2
driveState(rs, c2, currentTime, state) ==
    [c2 EXCEPT !.state = state, !.lastMoved = currentTime,
               !.indicator = (state = Merge)]

\* What Car.drive leaves: the grid and the cars m, and whether the
\* condition of its if (line 145) held
driven(m, could) == [rs |-> m.rs, cd |-> m.cd, could |-> could]

\* Car.drive, lines 145-147; could is the condition of the if
driveMerge(rs, cd4, id, could) ==
    IF could THEN driven(merge(rs, cd4, id), TRUE)
    ELSE [rs |-> rs, cd |-> cd4, could |-> FALSE]

\* Car.drive, lines 136-147, for the cars cd4 after line 143
driveDecided(rs, cd4, id) ==
    driveMerge(rs, cd4, id,
               cd4[id].state = Merge /\ canMerge(rs, cd4, cd4[id]))

\* travelled with the sign of the increment reversed
travelledBackwards(c, elapsedMs) == c.distance - (c.speed * elapsedMs) \div 1000

\* Car.drive, line 137: the distance after elapsedMs at the car's speed
travelled(c, elapsedMs) == c.distance + (c.speed * elapsedMs) \div 1000

\* Car.drive without the return of its first call
driveAtOnce(rs, cd, bl, id, currentTime) ==
    LET c0 == cd[id]
        elapsedMs == currentTime - c0.lastMoved
        c1 == [c0 EXCEPT !.distance = travelled(c0, elapsedMs)]
        c2 == driveSpeed(rs, cd, bl, id, c1)
    IN  driveDecided(
            rs,
            [cd EXCEPT ![id] =
                driveState(rs, c2, currentTime, effectMergeState(rs, c2))],
            id)

\* Car.drive(road) at clock value currentTime
drive(rs, cd, bl, id, currentTime) ==
    LET c0 == cd[id]
        elapsedMs == currentTime - c0.lastMoved
        c1 == [c0 EXCEPT !.distance = travelled(c0, elapsedMs)]
        c2 == driveSpeed(rs, cd, bl, id, c1)
    IN  IF c0.lastMoved = -1
        THEN [ rs |-> rs, cd |-> [cd EXCEPT ![id].lastMoved = currentTime],
               could |-> FALSE ]
        ELSE driveDecided(
                 rs,
                 [cd EXCEPT ![id] =
                     driveState(rs, c2, currentTime, effectMergeState(rs, c2))],
                 id)

\* alertRearDriver, lines 386-392: the first car behind laneX in lane, or 0
rearDriver(rs, lane, laneX) ==
    LET behind == { i \in 0..(laneX - 1) : isCar(rs[lane][i]) }
    IN  IF lane \notin DOMAIN rs \/ behind = {} THEN 0
        ELSE rs[lane][MaxOf(behind)]

\* The number of empty cells of laneData right after cell laneX, up to the
\* first cell that is not empty or to the end of the lane
emptyAhead(laneData, laneX) ==
    Cardinality({ p \in (laneX + 1)..(ROAD_WIDTH - 1) :
                    \A q \in (laneX + 1)..p : laneData[q] = null })

\* safeLaneX without the limit of the space ahead
safeLaneXDesired(rs, c) ==
    LET desired0 == (c.distance \div (1000 * spaceSize)) - 1
    IN  IF desired0 < 0 THEN 0 ELSE desired0

\* What a car driven in a tick saw when it decided and where it ended
\* (kept for the properties; the program keeps no such record).  rs and cd
\* are the grid and the cars when the car was driven, d the result of its
\* drive, result the result of its forward move (ret 1: none was tried).
Observe(rs, cd, id, index, d, result) ==
    [ id |-> id,
      distance |-> d.cd[id].distance,
      ahead |-> emptyAhead(d.rs[d.cd[id].laneNumber], d.cd[id].lanePosX),
      index |-> index,
      first |-> cd[id].lastMoved = -1,
      inviting |-> shouldLetCarIn(rs, cd, blockedLanes, cd[id]),
      gap |-> getDesiredDistance(rs, cd, blockedLanes, cd[id]),
      speedBefore |-> cd[id].speed,
      lane |-> cd[id].laneNumber,
      x |-> cd[id].lanePosX,
      blockDist |-> getDistance(rs, cd[id].laneNumber, cd[id].lanePosX, Blockage),
      desiredMerge |-> getDesiredMergingDistance(cd[id]),
      leftCars |-> Cardinality({ i \in DOMAIN cd :
                      /\ cd[i].laneNumber = cd[id].laneNumber - 1
                      /\ cd[i].laneNumber >= 0 }),
      state |-> d.cd[id].state,
      speed |-> d.cd[id].speed,
      could |-> d.could,
      rear |-> rearDriver(rs, cd[id].laneNumber - 1, cd[id].lanePosX),
      merged |-> d.cd[id].laneNumber # cd[id].laneNumber,
      xDriven |-> d.cd[id].lanePosX,
      kept |-> /\ result.rs = rs
               /\ result.cd = [cd EXCEPT ![id].lastMoved =
                                             result.cd[id].lastMoved],
      laneAfter |-> result.cd[id].laneNumber,
      xAfter |-> result.cd[id].lanePosX,
      ret |-> result.ret ]

\* Road.driveCar, lines 184-189, and the record of what the car did
driveCarEnd(w, cars0, id, d, result) ==
    [ rs |-> result.rs,
      cd |-> result.cd,
      toRemove |-> IF result.ret = -1
                   THEN Append(w.toRemove, indexOf(cars0, id))
                   ELSE w.toRemove,
      log |-> Append(w.log, Observe(w.rs, w.cd, id, indexOf(cars0, id), d,
                                    result)) ]

\* safeLaneX limited by the first cell that is not empty, not by the cell
\* before it
safeLaneXOnto(rs, c) ==
    LET desired0 == (c.distance \div (1000 * spaceSize)) - 1
        desiredLaneX == IF desired0 < 0 THEN 0 ELSE desired0
        available0 == getDistance(rs, c.laneNumber, c.lanePosX, All)
        availableSpace == IF available0 < 0 THEN ROAD_WIDTH ELSE available0
        maxLaneX == c.lanePosX + availableSpace + 1
    IN  IF desiredLaneX # c.lanePosX THEN Min2(desiredLaneX, maxLaneX)
        ELSE c.lanePosX

\* Road.driveCar, lines 173-183: the cell the car is to move to
safeLaneX(rs, c) ==
    LET desired0 == (c.distance \div (1000 * spaceSize)) - 1
        desiredLaneX == IF desired0 < 0 THEN 0 ELSE desired0
        available0 == getDistance(rs, c.laneNumber, c.lanePosX, All)
        availableSpace == IF available0 < 0 THEN ROAD_WIDTH ELSE available0
        maxLaneX == c.lanePosX + availableSpace
    IN  IF desiredLaneX # c.lanePosX THEN Min2(desiredLaneX, maxLaneX)
        ELSE c.lanePosX

\* Road.driveCar, lines 173-189, after car.drive returned d
driveCarMove(w, cars0, id, d, to) ==
    driveCarEnd(w, cars0, id, d,
                IF to # d.cd[id].lanePosX
                THEN setCarPos(d.rs, d.cd, id, d.cd[id].laneNumber, to)
                ELSE [rs |-> d.rs, cd |-> d.cd, ret |-> 1])

\* Road.driveCar, after car.drive returned d
driveCarDriven(w, cars0, id, d) ==
    driveCarMove(w, cars0, id, d, safeLaneX(d.rs, d.cd[id]))

\* Road.driveCar(car, toRemove); w is the road during the tick:
\* [rs, cd, toRemove, log]
driveCar(w, cars0, bl, id, currentTime) ==
    driveCarDriven(w, cars0, id, drive(w.rs, w.cd, bl, id, currentTime))

\* The snapshot of the list left in the order of the list
sortCarsNone(s, cd) == s

\* [...this.cars].sort(by lane, then by position): a stable sort
before(cd, a, b) ==
    IF cd[a].laneNumber # cd[b].laneNumber
    THEN cd[a].laneNumber < cd[b].laneNumber
    ELSE cd[a].lanePosX < cd[b].lanePosX

\* The place of the i-th car of s in the sorted list
rank(s, cd, i) ==
    1 + Cardinality({ j \in 1..Len(s) :
                        \/ before(cd, s[j], s[i])
                        \/ j < i /\ ~before(cd, s[i], s[j]) })

sortCars(s, cd) ==
    [ k \in 1..Len(s) |-> s[CHOOSE i \in 1..Len(s) : rank(s, cd, i) = k] ]

\* sortedCars.forEach(car => this.driveCar(car, toRemove))
RECURSIVE driveAll(_, _, _, _, _)
driveAll(w, cars0, bl, sortedCars, currentTime) ==
    IF sortedCars = <<>> THEN w
    ELSE driveAll(driveCar(w, cars0, bl, Head(sortedCars), currentTime),
                  cars0, bl, Tail(sortedCars), currentTime)

\* toRemove left in the order the indices were collected
sortNone(s) == s

\* toRemove.sort((a, b) => b - a); the indices are distinct
sortDescending(s) ==
    [ k \in 1..Len(s) |->
        CHOOSE v \in { s[i] : i \in 1..Len(s) } :
            Cardinality({ i \in 1..Len(s) : s[i] > v }) = k - 1 ]

\* remove that records a completion only for a car without a start time
removeUnrecorded(r, item, currentTime) ==
    LET id == r.cars[item + 1]
        c == r.cd[id]
    IN  IF item + 1 \notin 1..Len(r.cars) THEN r
        ELSE [ r EXCEPT
                 !.rs = [@ EXCEPT ![c.laneNumber][c.lanePosX] = null],
                 !.cd = [@ EXCEPT ![id] = NoCar],
                 !.cars = splice(@, item),
                 !.trails = Append(@, currentTime + CAR_TRAIL_LIFESPAN),
                 !.completedCars =
                     IF c.startTime = 0
                     THEN Append(@, [ startLane |-> c.startLane,
                                      travelTime |-> currentTime - c.startTime,
                                      expirationTime |->
                                          currentTime + CAR_TRAIL_LIFESPAN ])
                     ELSE @ ]

\* One round of the removal loop of driveCars for list index item;
\* r is [rs, cd, cars, trails, completedCars, log]
remove(r, item, currentTime) ==
    LET id == r.cars[item + 1]
        c == r.cd[id]
    IN  IF item + 1 \notin 1..Len(r.cars) THEN r
        ELSE [ r EXCEPT
                 !.rs = [@ EXCEPT ![c.laneNumber][c.lanePosX] = null],
                 !.cd = [@ EXCEPT ![id] = NoCar],
                 !.cars = splice(@, item),
                 !.trails = Append(@, currentTime + CAR_TRAIL_LIFESPAN),
                 !.completedCars =
                     IF c.startTime # 0
                     THEN Append(@, [ startLane |-> c.startLane,
                                      travelTime |-> currentTime - c.startTime,
                                      expirationTime |->
                                          currentTime + CAR_TRAIL_LIFESPAN ])
                     ELSE @ ]

RECURSIVE removeAll(_, _, _)
removeAll(r, items, currentTime) ==
    IF items = <<>> THEN r
    ELSE removeAll(remove(r, Head(items), currentTime), Tail(items),
                   currentTime)

\* The removal phase of driveCars after the cars were driven into w
driveCarsRemove(w, cars0, trails0, completed0, currentTime) ==
    removeAll([ rs |-> w.rs, cd |-> w.cd, cars |-> cars0, trails |-> trails0,
                completedCars |-> completed0, log |-> w.log ],
              sortDescending(w.toRemove), currentTime)

\* Road.driveCars() at clock value currentTime
driveCars(rs, cd, cars0, bl, trails0, completed0, currentTime) ==
    driveCarsRemove(
        driveAll([rs |-> rs, cd |-> cd, toRemove |-> <<>>, log |-> <<>>],
                 cars0, bl, sortCars(cars0, cd), currentTime),
        cars0, trails0, completed0, currentTime)

\* Road.purgeTrails() at clock value currentTime
purgeTrails(trails0, completed0, currentTime) ==
    LET keepTrail(expirationTime) == expirationTime > currentTime
        keepCar(c) == c.expirationTime > currentTime
    IN  [ trails |-> SelectSeq(trails0, keepTrail),
          completedCars |-> SelectSeq(completed0, keepCar) ]

\* What JavaScript's 0 / 0 gives
NaN == -1

\* a / b in thousandths, for a >= 0 and b >= 0
Ratio(a, b) == IF b = 0 THEN NaN ELSE (1000 * a) \div b

\* Math.sqrt, rounded down; below is a number the root does not exceed
sqrtFloor(n, below) ==
    CHOOSE r \in 0..below : r * r <= n /\ (r + 1) * (r + 1) > n

\* times.reduce((sum, t) => sum + t, 0) of the first k travel times, each
\* in tenths of a second (every clock difference of the model is a multiple
\* of 100 ms)
RECURSIVE sumTimes(_, _)
sumTimes(completed, k) ==
    IF k = 0 THEN 0
    ELSE sumTimes(completed, k - 1) + (completed[k].travelTime \div 100)

\* The sum of the squares of the first k travel times
RECURSIVE sumSquares(_, _)
sumSquares(completed, k) ==
    IF k = 0 THEN 0
    ELSE sumSquares(completed, k - 1)
         + (completed[k].travelTime \div 100) * (completed[k].travelTime \div 100)

\* getFairness without its two early returns
getFairnessUnguarded(completed) ==
    Ratio(sumTimes(completed, Len(completed)),
          sumTimes(completed, Len(completed))
          + sqrtFloor(Len(completed) * sumSquares(completed, Len(completed))
                      - sumTimes(completed, Len(completed))
                        * sumTimes(completed, Len(completed)),
                      Len(completed) * sumTimes(completed, Len(completed))))

\* getFairness taking the variance for the standard deviation
getFairnessOfVariance(completed) ==
    IF Len(completed) < 2 THEN 1000
    ELSE IF sumTimes(completed, Len(completed)) = 0 THEN 1000
    ELSE Ratio(sumTimes(completed, Len(completed)) * Len(completed),
               sumTimes(completed, Len(completed)) * Len(completed)
               + Len(completed) * sumSquares(completed, Len(completed))
               - sumTimes(completed, Len(completed))
                 * sumTimes(completed, Len(completed)))

\* Road.getFairness(), in thousandths. With n times of sum S and sum of
\* squares Q: mean = S / n, variance = (n * Q - S * S) / (n * n),
\* stdDev = sqrt(n * Q - S * S) / n, cv = sqrt(n * Q - S * S) / S, and
\* 1 / (1 + cv) = S / (S + sqrt(n * Q - S * S))
getFairness(completed) ==
    IF Len(completed) < 2 THEN 1000
    ELSE IF sumTimes(completed, Len(completed)) = 0 THEN 1000
    ELSE Ratio(sumTimes(completed, Len(completed)),
               sumTimes(completed, Len(completed))
               + sqrtFloor(Len(completed) * sumSquares(completed, Len(completed))
                           - sumTimes(completed, Len(completed))
                             * sumTimes(completed, Len(completed)),
                           Len(completed) * sumTimes(completed, Len(completed))))

\* Road.getCarsPerSecond(), in thousandths
getCarsPerSecond(trails0) ==
    LET totCars == Len(trails0)
        seconds == CAR_TRAIL_LIFESPAN \div 1000
    IN  (1000 * totCars) \div seconds

----------------------------------------------------------------------------
(* The state machine *)

\* No direct call of Road.setCarPos was made yet
NoCall ==
    [op |-> "none", id |-> 0, lane |-> 0, laneX |-> 0, occupied |-> FALSE,
     ret |-> 0]
\* The timers that setInterval has set and clearInterval has not cleared:
\* the identifier setInterval returned and the callback
Timer(id, fn) == [id |-> id, fn |-> fn]

\* new Simulation(canvasId, options): the fields of lines 376-378, and the
\* purge timer that the constructor of a valid Road sets (road.js line 43).
\* calls and last record the calls of start, stop and reset.
NewSimulation(valid) ==
    [ running |-> FALSE,
      carIntervalId |-> null,
      simIntervalId |-> null,
      timers |-> IF valid THEN {Timer(1, "purgeTrails")} ELSE {},
      nextTimer |-> IF valid THEN 2 ELSE 1,
      calls |-> 0,
      last |-> "none" ]

\* Simulation.start without the test of running
startAgain(s) ==
    [s EXCEPT !.running = TRUE,
              !.carIntervalId = s.nextTimer,
              !.simIntervalId = s.nextTimer + 1,
              !.timers = s.timers \cup {Timer(s.nextTimer, "generateRandomCar"),
                                        Timer(s.nextTimer + 1, "simulationUpdate")},
              !.nextTimer = s.nextTimer + 2]

\* Simulation.start()
start(s) ==
    IF s.running THEN s
    ELSE [s EXCEPT !.running = TRUE,
                   !.carIntervalId = s.nextTimer,
                   !.simIntervalId = s.nextTimer + 1,
                   !.timers = s.timers
                                \cup {Timer(s.nextTimer, "generateRandomCar"),
                                      Timer(s.nextTimer + 1, "simulationUpdate")},
                   !.nextTimer = s.nextTimer + 2]

\* Simulation.stop(): clearInterval of an identifier that is neither null
\* nor 0
stop(s) ==
    IF ~s.running THEN s
    ELSE [s EXCEPT !.running = FALSE,
                   !.carIntervalId = null,
                   !.simIntervalId = null,
                   !.timers =
                       { t \in s.timers :
                           /\ ~(s.carIntervalId \notin {null, 0}
                                 /\ t.id = s.carIntervalId)
                           /\ ~(s.simIntervalId \notin {null, 0}
                                 /\ t.id = s.simIntervalId) }]

\* new Road(...) in Simulation.reset: the purge timer of the new road is
\* set, that of the road given up is never cleared
newRoadTimer(s, valid) ==
    IF valid
    THEN [s EXCEPT !.timers = s.timers \cup {Timer(s.nextTimer, "purgeTrails")},
                   !.nextTimer = s.nextTimer + 1]
    ELSE s

\* Simulation.reset(), lines 471-486, for the timers
reset(s, valid) ==
    IF s.running THEN start(newRoadTimer(stop(s), valid))
    ELSE newRoadTimer(stop(s), valid)

\* No function was evaluated yet
NoProbe == [fn |-> "none", in |-> <<>>, out |-> <<>>]

\* new Road(lanes, blockedLanes, spaceSize) of one of the shapes, no cars,
\* the clock at a positive reading
Init ==
    /\ \E shape \in Shapes :
          /\ roadSpace = placeBlockage(shape[1], shape[2])
          /\ blockedLanes = shape[2]
    /\ cars = <<>>
    /\ trails = <<>>
    /\ completedCars = <<>>
    /\ car = [id \in CarIds |-> NoCar]
    /\ now = 1
    /\ nextId = 1
    /\ log = <<>>
    /\ call = NoCall
    /\ probe = NoProbe
    /\ sim = start(NewSimulation(TRUE))

\* The road after addCar returned r
Added(r) ==
    /\ roadSpace' = r.rs
    /\ cars' = r.cars
    /\ car' = r.cd

\* Simulation.generateRandomCar: when getRandomLane returns a lane, new
\* Car(...) with drawn traits and that lane, then Road.addCar(car), which
\* calls getRandomLane again
Spawn ==
    /\ nextId <= MaxCars
    /\ \E laneNumber \in getRandomLane(roadSpace), mt \in MergeTendencies,
          co \in Cooperations, ag \in Aggressivenesses :
          IF laneNumber >= 0
          THEN /\ \E lane \in getRandomLane(roadSpace) :
                     Added(addCar(roadSpace, cars, car, nextId,
                                  NewCar(mt, co, ag, laneNumber), lane, now))
               /\ nextId' = nextId + 1
          ELSE UNCHANGED <<roadSpace, cars, car, nextId>>
    /\ UNCHANGED <<blockedLanes, trails, completedCars, now, log, call, probe, sim>>

\* The road after driveCars returned t
Driven(t) ==
    /\ roadSpace' = t.rs
    /\ car' = t.cd
    /\ cars' = t.cars
    /\ trails' = t.trails
    /\ completedCars' = t.completedCars
    /\ log' = t.log

\* Simulation.simulationUpdate: Road.driveCars(), elapsedMs after the last
Tick ==
    \E elapsedMs \in Elapsed :
        /\ now + elapsedMs <= 1000 * MaxTime
        /\ now' = now + elapsedMs
        /\ \E t \in { driveCars(roadSpace, car, cars, blockedLanes, trails,
                                 completedCars, now + elapsedMs) } : Driven(t)
        /\ UNCHANGED <<blockedLanes, nextId, call, probe, sim>>

Next == Spawn \/ Tick

Spec == Init /\ [][Next]_vars

----------------------------------------------------------------------------
(* Scenario A: one vehicle alone in lane 0 of a 2-lane road whose lane 1 is
   blocked; the simulation ticks for as long as the vehicle is on the road *)

InitAlone ==
    /\ roadSpace = placeBlockage(2, 1)
    /\ blockedLanes = 1
    /\ cars = <<>>
    /\ trails = <<>>
    /\ completedCars = <<>>
    /\ car = [id \in CarIds |-> NoCar]
    /\ now = 1
    /\ nextId = 1
    /\ log = <<>>
    /\ call = NoCall
    /\ probe = NoProbe
    /\ sim = start(NewSimulation(TRUE))

\* Road.addCar of the single vehicle, getRandomLane returning lane 0
SpawnAlone ==
    /\ nextId = 1
    /\ \E mt \in MergeTendencies, co \in Cooperations, ag \in Aggressivenesses :
          /\ roadSpace' = [roadSpace EXCEPT ![0][0] = nextId]
          /\ cars' = Append(cars, nextId)
          /\ car' = [car EXCEPT ![nextId] =
                        [NewCar(mt, co, ag, 0) EXCEPT !.startTime = now]]
    /\ nextId' = nextId + 1
    /\ UNCHANGED <<blockedLanes, trails, completedCars, now, log, call, probe, sim>>

\* Simulation.simulationUpdate while the vehicle is on the road
TickAlone ==
    /\ cars # <<>>
    /\ \E elapsedMs \in ElapsedAlone :
          /\ now' = now + elapsedMs
          /\ \E t \in { driveCars(roadSpace, car, cars, blockedLanes, trails,
                                   completedCars, now + elapsedMs) } : Driven(t)
    /\ UNCHANGED <<blockedLanes, nextId, call, probe, sim>>

NextAlone == SpawnAlone \/ TickAlone

\* The interval timer of Simulation.start fires while the vehicle is on the
\* road: the clock reading that the next driveCars takes is a later one.
\* Among the steps of NextAlone these are the steps of TickAlone.
TimerFires ==
    /\ cars # <<>>
    /\ now' \in { now + elapsedMs : elapsedMs \in ElapsedAlone }

\* The timer keeps firing
SpecAlone == InitAlone /\ [][NextAlone]_vars /\ WF_now(TimerFires)

----------------------------------------------------------------------------
(* Road.setCarPos called directly on a road that holds spawned cars *)

\* Positions a direct call names
Positions == {0, 1, BLOCK_START - 1, BLOCK_START, ROAD_WIDTH - 1, ROAD_WIDTH}

\* The road after setCarPos returned r
Placed(r) ==
    /\ roadSpace' = r.rs
    /\ car' = r.cd

\* road.setCarPos(car, lane, laneX), once
SetCarPosCall ==
    /\ call.op = "none"
    /\ \E i \in 1..Len(cars), lane \in 0..Cardinality(DOMAIN roadSpace),
          laneX \in Positions :
          /\ Placed(setCarPos(roadSpace, car, cars[i], lane, laneX))
          /\ call' = [ op |-> "setCarPos", id |-> cars[i], lane |-> lane,
                       laneX |-> laneX,
                       occupied |-> /\ lane \in DOMAIN roadSpace
                                    /\ laneX < ROAD_WIDTH
                                    /\ roadSpace[lane][laneX] # null
                                    /\ roadSpace[lane][laneX] # cars[i],
                       ret |-> setCarPos(roadSpace, car, cars[i], lane,
                                         laneX).ret ]
    /\ UNCHANGED <<blockedLanes, cars, trails, completedCars, now, nextId,
                   log, probe, sim>>

NextApi == Spawn \/ SetCarPosCall

\* The lane argument of new Car(...); addCar overwrites it
StartLanes == {0}

\* road.addCar(new Car(...)) called directly, also when no lane is open
AddCarCall ==
    /\ nextId <= MaxCars \/ openLanes(roadSpace) = {}
    /\ \E laneNumber \in StartLanes, mt \in MergeTendencies,
          co \in Cooperations, ag \in Aggressivenesses,
          lane \in getRandomLane(roadSpace) :
          /\ Added(addCar(roadSpace, cars, car, nextId,
                          NewCar(mt, co, ag, laneNumber), lane, now))
          /\ nextId' = IF lane >= 0 THEN nextId + 1 ELSE nextId
          /\ call' = [ op |-> "addCar", id |-> nextId, lane |-> lane,
                       laneX |-> 0,
                       occupied |-> /\ lane \in DOMAIN roadSpace
                                    /\ roadSpace[lane][0] # null,
                       ret |-> lane ]
    /\ UNCHANGED <<blockedLanes, trails, completedCars, now, log, probe, sim>>

NextAdd == AddCarCall \/ Tick

SpecAdd == Init /\ [][NextAdd]_vars

----------------------------------------------------------------------------
(* A road constructed with counts the constructor refuses *)

\* <<lanes, blockedLanes>> with lanes < 2 or blockedLanes >= lanes
BadShapes ==
    { shape \in (-1..4) \X (0..5) : shape[1] < 2 \/ shape[2] >= shape[1] }

\* new Road(lanes, blockedLanes, spaceSize) of a refused shape; probe keeps
\* the arguments
InitBad ==
    /\ \E shape \in BadShapes :
          /\ roadSpace = Road(shape[1], shape[2]).roadSpace
          /\ blockedLanes = Road(shape[1], shape[2]).blockedLanes
          /\ probe = [fn |-> "Road", in |-> shape, out |-> << >>]
          /\ sim = start(NewSimulation(FALSE))
    /\ cars = <<>>
    /\ trails = <<>>
    /\ completedCars = <<>>
    /\ car = [id \in CarIds |-> NoCar]
    /\ now = 1
    /\ nextId = 1
    /\ log = <<>>
    /\ call = NoCall

NextBad == AddCarCall \/ Tick

SpecBad == InitBad /\ [][NextBad]_vars

----------------------------------------------------------------------------
(* Spawning stops and the simulation keeps ticking *)

\* Simulation.generateRandomCar until the spawn timer is stopped
SpawnEarly ==
    /\ now <= 1000 * SpawnUntil
    /\ Spawn

\* Simulation.simulationUpdate while cars may come or are on the road
TickDrain ==
    /\ cars # <<>> \/ now <= 1000 * SpawnUntil
    /\ \E elapsedMs \in ElapsedDrain :
          /\ now + elapsedMs <= 1000 * DrainTime
          /\ now' = now + elapsedMs
          /\ \E t \in { driveCars(roadSpace, car, cars, blockedLanes, trails,
                                   completedCars, now + elapsedMs) } : Driven(t)
    /\ UNCHANGED <<blockedLanes, nextId, call, probe, sim>>

NextDrain == SpawnEarly \/ TickDrain

\* The interval timer of Simulation.start fires: the clock reading the next
\* driveCars takes is a later one. Among the steps of NextDrain these are
\* the steps of TickDrain.
TimerDrain ==
    /\ cars # <<>> \/ now <= 1000 * SpawnUntil
    /\ now' \in { now + elapsedMs : elapsedMs \in ElapsedDrain }
    /\ now' <= 1000 * DrainTime

SpecDrain == Init /\ [][NextDrain]_vars /\ WF_now(TimerDrain)

----------------------------------------------------------------------------
(* The three timers: spawn, tick and purge *)

\* Simulation.simulationUpdate, the road empty or not
TickTimers ==
    \E elapsedMs \in ElapsedDrain :
        /\ now + elapsedMs <= 1000 * TimersTime
        /\ now' = now + elapsedMs
        /\ \E t \in { driveCars(roadSpace, car, cars, blockedLanes, trails,
                                 completedCars, now + elapsedMs) } : Driven(t)
        /\ UNCHANGED <<blockedLanes, nextId, call, probe, sim>>

\* The purge timer of the Road constructor fires. Every expiry time is the
\* time of a tick plus the lifespan, so whatever reading purgeTrails takes
\* before the next tick keeps the records that the reading of the last tick
\* keeps.
Purge ==
    /\ \E p \in { purgeTrails(trails, completedCars, now) } :
          /\ trails' = p.trails
          /\ completedCars' = p.completedCars
    /\ UNCHANGED <<roadSpace, cars, blockedLanes, car, now, nextId, log, call,
                   probe, sim>>

NextTimers == SpawnEarly \/ TickTimers \/ Purge

SpecTimers == Init /\ [][NextTimers]_vars

SpecApi == Init /\ [][NextApi]_vars

----------------------------------------------------------------------------
(* Ticks that follow each other closely: cars advance a few cells a tick *)

\* Simulation.simulationUpdate, half a second after the last
TickClose ==
    \E elapsedMs \in ElapsedClose :
        /\ now + elapsedMs <= 1000 * CloseTime
        /\ now' = now + elapsedMs
        /\ \E t \in { driveCars(roadSpace, car, cars, blockedLanes, trails,
                                 completedCars, now + elapsedMs) } : Driven(t)
        /\ UNCHANGED <<blockedLanes, nextId, call, probe, sim>>

NextClose == Spawn \/ TickClose

SpecClose == Init /\ [][NextClose]_vars

----------------------------------------------------------------------------
(* The Simulation is started, stopped and reset while its timers fire *)

\* <<lanes, blockedLanes>> of the roads of this scenario, one of them refused
SimShapes == {<<2, 1>>, <<3, 3>>}

\* new Simulation(canvasId, options): the road constructed, nothing started
InitSim ==
    /\ \E shape \in SimShapes :
          /\ roadSpace = Road(shape[1], shape[2]).roadSpace
          /\ blockedLanes = Road(shape[1], shape[2]).blockedLanes
          /\ sim = NewSimulation(DOMAIN Road(shape[1], shape[2]).roadSpace # {})
    /\ cars = <<>>
    /\ trails = <<>>
    /\ completedCars = <<>>
    /\ car = [id \in CarIds |-> NoCar]
    /\ now = 1
    /\ nextId = 1
    /\ log = <<>>
    /\ call = NoCall
    /\ probe = NoProbe

\* The simulation s after a call of the method named
Called(s, method) == [s EXCEPT !.calls = sim.calls + 1, !.last = method]

\* simulation.start()
Start ==
    /\ sim.calls < MaxCalls
    /\ sim' = Called(start(sim), "start")
    /\ UNCHANGED <<roadSpace, cars, blockedLanes, trails, completedCars, car,
                   now, nextId, log, call, probe>>

\* simulation.stop()
Stop ==
    /\ sim.calls < MaxCalls
    /\ sim' = Called(stop(sim), "stop")
    /\ UNCHANGED <<roadSpace, cars, blockedLanes, trails, completedCars, car,
                   now, nextId, log, call, probe>>

\* simulation.reset(): this.road is a new Road of the lane counts of the
\* old one, whose cars nothing refers to any more
Reset ==
    /\ sim.calls < MaxCalls
    /\ \E r \in { Road(Cardinality(DOMAIN roadSpace), blockedLanes) } :
          /\ roadSpace' = r.roadSpace
          /\ blockedLanes' = r.blockedLanes
          /\ sim' = Called(reset(sim, DOMAIN r.roadSpace # {}), "reset")
    /\ cars' = <<>>
    /\ trails' = <<>>
    /\ completedCars' = <<>>
    /\ car' = [id \in CarIds |-> NoCar]
    /\ nextId' = 1
    /\ log' = <<>>
    /\ UNCHANGED <<now, call, probe>>

\* The spawn timer fires: a timer that is set calls generateRandomCar
SpawnFires ==
    /\ \E t \in sim.timers : t.fn = "generateRandomCar"
    /\ Spawn

\* The tick timer fires: a timer that is set calls simulationUpdate
TickFires ==
    /\ \E t \in sim.timers : t.fn = "simulationUpdate"
    /\ \E elapsedMs \in Elapsed :
          /\ now + elapsedMs <= 1000 * SimTime
          /\ now' = now + elapsedMs
          /\ \E d \in { driveCars(roadSpace, car, cars, blockedLanes, trails,
                                   completedCars, now + elapsedMs) } : Driven(d)
    /\ UNCHANGED <<blockedLanes, nextId, call, probe, sim>>

NextSim == Start \/ Stop \/ Reset \/ SpawnFires \/ TickFires

SpecSim == InitSim /\ [][NextSim]_vars

----------------------------------------------------------------------------
(* The pure functions, evaluated on bounded inputs *)

\* The anchors (low, mid, high) of the four trait mappings
Anchors ==
    { <<FOLLOWING_DISTANCE_LOW, FOLLOWING_DISTANCE_MID, FOLLOWING_DISTANCE_HIGH>>,
      <<MERGE_DISTANCE_LOW, MERGE_DISTANCE_MID, MERGE_DISTANCE_HIGH>>,
      <<MERGE_GAP_LOW, MERGE_GAP_MID, MERGE_GAP_HIGH>>,
      <<MERGE_SPACE_LOW, MERGE_SPACE_MID, MERGE_SPACE_HIGH>> }

\* getValueFromNormalized(input, low, mid, high) on the anchors a
ApplyNormalized ==
    /\ probe.fn = "none"
    /\ \E input \in Inputs, a \in Anchors :
          probe' = [ fn |-> "getValueFromNormalized",
                     in |-> <<input, a[1], a[2], a[3]>>,
                     out |-> <<getValueFromNormalized(input, a[1], a[2], a[3])>> ]
    /\ UNCHANGED <<roadSpace, cars, blockedLanes, trails, completedCars, car,
                   now, nextId, log, call, sim>>

\* A car standing at laneX of lane
CarAt(lane, laneX) == [NoCar EXCEPT !.laneNumber = lane, !.lanePosX = laneX]

\* getMergeUrgency(car, road) for a car at two positions of one lane; in
\* also holds the distance to the blockage from each
ApplyUrgency ==
    /\ probe.fn = "none"
    /\ \E lane \in DOMAIN roadSpace, x1 \in 0..(ROAD_WIDTH - 1),
          x2 \in 0..(ROAD_WIDTH - 1) :
          probe' = [ fn |-> "getMergeUrgency",
                     in |-> << lane, x1, x2,
                               getDistance(roadSpace, lane, x1, Blockage),
                               getDistance(roadSpace, lane, x2, Blockage) >>,
                     out |-> << getMergeUrgency(roadSpace, CarAt(lane, x1)),
                                getMergeUrgency(roadSpace, CarAt(lane, x2)) >> ]
    /\ UNCHANGED <<roadSpace, cars, blockedLanes, trails, completedCars, car,
                   now, nextId, log, call, sim>>

\* Cells where the vehicles of a scanned lane stand; -1 for no vehicle
Stands == {-1, 0, 1, 20, BLOCK_START - 1, BLOCK_START, ROAD_WIDTH - 2,
           ROAD_WIDTH - 1}

\* The lane with vehicle id in cell laneX when that cell is free
standing(laneData, id, laneX) ==
    IF laneX \in DOMAIN laneData /\ laneData[laneX] = null
    THEN [laneData EXCEPT ![laneX] = id]
    ELSE laneData

\* getDistance(road, lane, laneX, targetSpace) on a lane of the road with up
\* to two vehicles standing in it, from every cell and one past the end
ApplyDistance ==
    /\ probe.fn = "none"
    /\ \E lane \in DOMAIN roadSpace, s1 \in Stands, s2 \in Stands,
          laneX \in 0..ROAD_WIDTH, targetSpace \in {All, Blockage, Cars} :
          \E rs \in { [roadSpace EXCEPT ![lane] =
                          standing(standing(roadSpace[lane], 1, s1), 2, s2)] } :
              probe' = [ fn |-> "getDistance",
                         in |-> <<rs[lane], laneX, targetSpace>>,
                         out |-> <<getDistance(rs, lane, laneX, targetSpace)>> ]
    /\ UNCHANGED <<roadSpace, cars, blockedLanes, trails, completedCars, car,
                   now, nextId, log, call, sim>>

\* Lane indices that are not in the grid rs: one left of it, the one right
\* after its last lane and the next
Outside(rs) ==
    {-1, Cardinality(DOMAIN rs), Cardinality(DOMAIN rs) + 1}

\* The decision helpers called with a lane index outside the grid, for the
\* scan directly and for the others by a car that carries it
ApplyOutside ==
    /\ probe.fn = "none"
    /\ \E lane \in Outside(roadSpace),
          laneX \in {0, 20, BLOCK_START - 1, ROAD_WIDTH - 1},
          targetSpace \in {All, Blockage, Cars} :
          probe' = [ fn |-> "outside",
                     in |-> <<lane, laneX, targetSpace>>,
                     out |-> << getDistance(roadSpace, lane, laneX, targetSpace),
                                getMergeUrgency(roadSpace, CarAt(lane, laneX)),
                                canMergeOutcome(roadSpace, car,
                                                CarAt(lane, laneX)),
                                IF checkUnderCarLeftQuota(
                                       roadSpace, car, blockedLanes,
                                       CarAt(lane, laneX),
                                       getLeftOpenSpaces(roadSpace, lane, laneX))
                                THEN 1 ELSE 0 >> ]
    /\ UNCHANGED <<roadSpace, cars, blockedLanes, trails, completedCars, car,
                   now, nextId, log, call, sim>>

\* Travel times, in ms, of the completion records getFairness is applied to
FairTimes == {0, 2000, 14000, 20000}

\* The completion records of the travel times in times
recordsOf(times) ==
    [ k \in 1..Len(times) |->
        [ startLane |-> 0, travelTime |-> times[k],
          expirationTime |-> CAR_TRAIL_LIFESPAN ] ]

\* road.getFairness() with no, 1, 2 or 3 completion records held
ApplyFairness ==
    /\ probe.fn = "none"
    /\ \E n \in 0..3 : \E times \in [1..n -> FairTimes] :
          probe' = [ fn |-> "getFairness",
                     in |-> times,
                     out |-> <<getFairness(recordsOf(times))>> ]
    /\ UNCHANGED <<roadSpace, cars, blockedLanes, trails, completedCars, car,
                   now, nextId, log, call, sim>>

NextFn ==
    \/ ApplyNormalized
    \/ ApplyUrgency
    \/ ApplyDistance
    \/ ApplyOutside
    \/ ApplyFairness

SpecFn == Init /\ [][NextFn]_vars

----------------------------------------------------------------------------
(* Properties of the road under spawns and ticks *)

\* The vehicles of the road's list
OnRoad == { cars[i] : i \in 1..Len(cars) }

\* The grid cells that hold a reference to vehicle id
CellsOf(id) ==
    { p \in (DOMAIN roadSpace) \X (0..(ROAD_WIDTH - 1)) :
          roadSpace[p[1]][p[2]] = id }

\* C1: after any sequence of spawns and ticks every vehicle of the list is
\* referenced by exactly one grid cell, the cell at its recorded lane and
\* position; no cell references a vehicle that is not in the list; no two
\* vehicles share a cell.
C1_GridInvariant ==
    /\ \A i \in 1..Len(cars), j \in 1..Len(cars) : cars[i] = cars[j] => i = j
    /\ \A id \in OnRoad :
          CellsOf(id) = { <<car[id].laneNumber, car[id].lanePosX>> }
    /\ \A lane \in DOMAIN roadSpace, x \in 0..(ROAD_WIDTH - 1) :
          isCar(roadSpace[lane][x]) => roadSpace[lane][x] \in OnRoad
    /\ \A a \in OnRoad, b \in OnRoad :
          a # b => \/ car[a].laneNumber # car[b].laneNumber
                   \/ car[a].lanePosX # car[b].lanePosX

\* Two vehicles are in one lane after one of them merged into it and moved
\* forward in the last tick
C1_Witness ==
    /\ Len(cars) = 2
    /\ car[cars[1]].laneNumber = car[cars[2]].laneNumber
    /\ \E i \in 1..Len(log) : log[i].merged /\ log[i].ret = 0

Speeds == {0, MAX_SPEED}
\* Values of the urgency factor, in thousandths
Urgencies == {300, 1000}

\* The three quantities of the left-lane survey of c are zero
SurveyIsZero(c) ==
    LET spaces == getLeftOpenSpaces(roadSpace, c.laneNumber, c.lanePosX)
    IN  spaces.left_ahead = 0 /\ spaces.left_behind = 0 /\ spaces.left_beside = 0

\* C6: canMerge is false for every vehicle whose left-lane survey is zero on
\* ahead, behind and beside, whatever the urgency, the speed and the traits.
C6_NoSpaceNoMerge ==
    \A id \in OnRoad :
        SurveyIsZero(car[id]) =>
            /\ ~canMerge(roadSpace, car, car[id])
            /\ \A speed \in Speeds, ag \in Aggressivenesses, u \in Urgencies :
                  ~canMergeUrgent(
                       roadSpace, car,
                       [car[id] EXCEPT !.speed = speed, !.aggressiveness = ag], u)

\* A vehicle has another vehicle beside it in the lane to its left
C6_Witness ==
    \E id \in OnRoad :
        /\ car[id].laneNumber > 0
        /\ isCar(roadSpace[car[id].laneNumber - 1][car[id].lanePosX])
        /\ SurveyIsZero(car[id])
        /\ ~canMerge(roadSpace, car, car[id])

\* C8: from one tick to the next the travelled distance and the in-lane
\* position of a vehicle that stays on the road never decrease.
C8_ForwardProgress ==
    [][ \A id \in CarIds :
            (id \in OnRoad /\ id \in OnRoad') =>
                /\ car'[id].distance >= car[id].distance
                /\ car'[id].lanePosX >= car[id].lanePosX ]_vars

\* A vehicle merged and moved forward in the same tick
C8_Witness ==
    \E i \in 1..Len(log) :
        /\ log[i].merged
        /\ log[i].xAfter > log[i].x
        /\ log[i].id \in OnRoad

\* C9: the speed of every vehicle is between 0 and MAX_SPEED, in every state
\* and after each speed adjustment.
C9_SpeedInRange ==
    /\ \A id \in OnRoad : car[id].speed >= 0 /\ car[id].speed <= MAX_SPEED
    /\ \A i \in 1..Len(log) : log[i].speed >= 0 /\ log[i].speed <= MAX_SPEED

\* One vehicle was slowed to a standstill, another to a speed in between
C9_Witness ==
    \E a \in OnRoad, b \in OnRoad :
        /\ car[a].speed = 0
        /\ car[b].speed > 0 /\ car[b].speed < MAX_SPEED

----------------------------------------------------------------------------
(* Properties of Road.setCarPos called directly *)

\* C2: setCarPos onto a cell that another vehicle or a blockage occupies
\* returns -1 and changes nothing: every grid cell, the cell of the vehicle
\* included, and the vehicle's lane, position and carsLetIn stay as they were.
C2_OccupiedIsNoOp ==
    [][ (call.op = "none" /\ call'.op = "setCarPos" /\ call'.occupied) =>
            /\ call'.ret = -1
            /\ roadSpace' = roadSpace
            /\ car'[call'.id].laneNumber = car[call'.id].laneNumber
            /\ car'[call'.id].lanePosX = car[call'.id].lanePosX
            /\ car'[call'.id].carsLetIn = car[call'.id].carsLetIn ]_vars

----------------------------------------------------------------------------
(* Properties of the pure functions *)

\* The value on the line from low at 0 through mid at 0.5 to high at 1
Interpolated(input, low, mid, high) ==
    IF input <= 500 THEN low + (2 * input * (mid - low)) \div 1000
    ELSE mid + (2 * (input - 500) * (high - mid)) \div 1000

\* C3: for each of the four anchor triples getValueFromNormalized returns low
\* at input 0, mid at 0.5 and high at 1, and in between the value on the
\* line low -> mid over [0, 0.5] and mid -> high over [0.5, 1].
C3_TransformInterpolates ==
    probe.fn = "getValueFromNormalized" =>
        probe.out[1] = Interpolated(probe.in[1], probe.in[2], probe.in[3],
                                    probe.in[4])

\* C7: getMergeUrgency returns a value in [0.3, 1.0], and for distances to the
\* blockage 0 <= d1 <= d2 the urgency at d1 is at most the urgency at d2.
C7_UrgencyMonotone ==
    probe.fn = "getMergeUrgency" =>
        /\ probe.out[1] >= 300 /\ probe.out[1] <= 1000
        /\ probe.out[2] >= 300 /\ probe.out[2] <= 1000
        /\ (probe.in[4] >= 0 /\ probe.in[4] <= probe.in[5]) =>
               probe.out[1] <= probe.out[2]

\* The urgency was taken on both sides of the band boundary at 5 cells
C7_Witness ==
    /\ probe.fn = "getMergeUrgency"
    /\ probe.in[4] = 4 /\ probe.in[5] = 5
    /\ probe.out[1] < probe.out[2]

----------------------------------------------------------------------------
(* Properties of the vehicle alone on the road *)

\* C4: the single vehicle spawned in lane 0 of the 2-lane road with 1 blocked
\* lane is eventually removed from the list and the grid, and its removal
\* leaves exactly one trail record and exactly one completion record.
C4_AloneIsRemoved ==
    /\ [](Len(trails) <= 1 /\ Len(completedCars) <= 1)
    /\ (cars # <<>>) ~> ( /\ cars = <<>>
                          /\ \A id \in CarIds : CellsOf(id) = {}
                          /\ Len(trails) = 1
                          /\ Len(completedCars) = 1 )

\* The vehicle was spawned and has left the road
C4_Witness ==
    /\ nextId = 2
    /\ cars = <<>>
    /\ \A id \in CarIds : CellsOf(id) = {}
    /\ Len(trails) = 1
    /\ Len(completedCars) = 1

\* C10: after each tick in which the decision logic of a vehicle runs, its
\* state is Merge exactly when there is a blockage ahead in its lane and the
\* number of cells up to it is at most the desired merge distance, and
\* Default exactly when not.
C10_MergeStateFollowsDistance ==
    \A i \in 1..Len(log) :
        ~log[i].first =>
            LET within == /\ log[i].blockDist >= 0 /\ log[i].blockDist < 100
                          /\ 1000 * log[i].blockDist <= log[i].desiredMerge
            IN  /\ log[i].state = Merge <=> within
                /\ log[i].state = Default <=> ~within

----------------------------------------------------------------------------
(* Further properties of the road under spawns and ticks *)

\* C11: after a spawn and after every tick the turn signal of a vehicle on
\* the road is on if and only if its state is Merge.
C11_IndicatorMirrorsMerge ==
    \A id \in OnRoad : car[id].indicator <=> (car[id].state = Merge)

\* One vehicle signals in Merge state while another, in Default state, does not
C11_Witness ==
    \E a \in OnRoad, b \in OnRoad :
        /\ car[a].state = Merge /\ car[a].indicator
        /\ car[b].state = Default /\ ~car[b].indicator
        /\ car[b].lastMoved # -1

\* The vehicles that merged in the last tick right in front of vehicle id
MergedInFrontOf(id) ==
    { i \in 1..Len(log) : log[i].merged /\ log[i].rear = id }

\* C12: the carsLetIn counter of a vehicle grows by 1 exactly when another
\* vehicle merges into its lane with it as the nearest vehicle behind the
\* merge cell, and never changes otherwise; the counter of the merging
\* vehicle itself does not change.
C12_CarsLetInCountsMergesInFront ==
    [][ \A id \in CarIds :
            (id \in OnRoad /\ id \in OnRoad') =>
                IF now' # now
                THEN car'[id].carsLetIn =
                         car[id].carsLetIn + Cardinality(MergedInFrontOf(id)')
                ELSE car'[id].carsLetIn = car[id].carsLetIn ]_vars

\* The vehicles whose forward commit failed in the last tick
Failed == { log[i].id : i \in { j \in 1..Len(log) : log[j].ret = -1 } }

\* The completion record of vehicle c removed at clock value currentTime
Completion(c, currentTime) ==
    [ startLane |-> c.startLane,
      travelTime |-> currentTime - c.startTime,
      expirationTime |-> currentTime + CAR_TRAIL_LIFESPAN ]

\* C13: a vehicle whose forward commit fails in a tick is, at the end of that
\* tick, in no place of the vehicle list and in no grid cell; one trail record
\* and one completion record with its origin lane and travel duration were
\* appended for it; every other vehicle stays in the list; and only vehicles
\* of the list are driven, so a failed move is not tried again.
C13_FailedCommitIsRemoved ==
    [][ now' # now =>
          /\ OnRoad' = OnRoad \ Failed'
          /\ Failed' \subseteq OnRoad
          /\ \A i \in 1..Len(log') : log'[i].id \in OnRoad
          /\ \A id \in Failed' : CellsOf(id)' = {}
          /\ Len(cars') = Len(cars) - Cardinality(Failed')
          /\ Len(trails') = Len(trails) + Cardinality(Failed')
          /\ SubSeq(trails', 1, Len(trails)) = trails
          /\ \A k \in (Len(trails) + 1)..Len(trails') :
                 trails'[k] = now' + CAR_TRAIL_LIFESPAN
          /\ Len(completedCars') = Len(completedCars) + Cardinality(Failed')
          /\ SubSeq(completedCars', 1, Len(completedCars)) = completedCars
          /\ \A id \in Failed' :
                 Cardinality({ k \in (Len(completedCars) + 1)..Len(completedCars') :
                                 completedCars'[k] = Completion(car[id], now') })
                 = Cardinality({ j \in Failed' :
                                   Completion(car[j], now') =
                                   Completion(car[id], now') }) ]_vars

\* Two vehicles failed their commit in the same tick and both are gone
C13_Witness ==
    /\ Cardinality(Failed) = 2
    /\ OnRoad = {}
    /\ Len(trails) = 2
    /\ Len(completedCars) = 2

\* One vehicle failed its commit and is gone while the other stays
C13_WitnessOne ==
    /\ Cardinality(Failed) = 1
    /\ Cardinality(OnRoad) = 1
    /\ Len(completedCars) = 1

\* C14: a call of addCar gets from getRandomLane a lane whose cell 0 is
\* empty, and -1 exactly when no lane has an empty cell 0; with a lane it puts
\* the vehicle at position 0 of that lane and at the end of the vehicle list
\* and changes no other cell; with -1 it leaves the grid, the list and the
\* vehicles as they are.
C14_SpawnOnlyIntoOpenLane ==
    [][ (call'.op = "addCar" /\ now' = now) =>
          IF \E l \in DOMAIN roadSpace : roadSpace[l][0] = null
          THEN /\ call'.ret \in DOMAIN roadSpace
               /\ roadSpace[call'.ret][0] = null
               /\ roadSpace' = [roadSpace EXCEPT ![call'.ret][0] = call'.id]
               /\ cars' = Append(cars, call'.id)
               /\ call'.id \notin OnRoad
               /\ car'[call'.id].laneNumber = call'.ret
               /\ car'[call'.id].lanePosX = 0
               /\ \A id \in OnRoad : car'[id] = car[id]
          ELSE /\ call'.ret = -1
               /\ roadSpace' = roadSpace
               /\ cars' = cars
               /\ car' = car ]_vars

\* addCar was called with the entry cell of every lane taken and returned
\* without adding the vehicle
C14_Witness ==
    /\ call.op = "addCar"
    /\ call.ret = -1
    /\ \A l \in DOMAIN roadSpace : isCar(roadSpace[l][0])
    /\ Len(cars) = MaxCars

\* addCar placed a second vehicle in the one lane that was open
C14_WitnessOpen ==
    /\ call.op = "addCar"
    /\ call.ret >= 0
    /\ Len(cars) = 2
    /\ car[cars[1]].lanePosX = 0
    /\ car[cars[2]].lanePosX = 0

----------------------------------------------------------------------------
(* Properties of the road once spawning has stopped *)

\* C15: once no vehicle is spawned any more and the ticks go on, every
\* vehicle on the road is eventually removed from it; none stays for ever.
C15_EveryVehicleLeaves ==
    \A id \in CarIds : (id \in OnRoad) ~> (id \notin OnRoad)

\* A vehicle spawned in a blocked lane has merged out of it and left the road
\* while the clock is still short of the end of the run
C15_Witness ==
    /\ cars = <<>>
    /\ \E k \in 1..Len(completedCars) :
           completedCars[k].startLane >= Cardinality(DOMAIN roadSpace) - blockedLanes
    /\ Len(completedCars) = MaxCars
    /\ now + 2000 <= 1000 * DrainTime

----------------------------------------------------------------------------
(* Properties of the road under the spawn, tick and purge timers *)

\* s begins with the sequence t
StartsWith(s, t) == Len(s) >= Len(t) /\ SubSeq(s, 1, Len(t)) = t

\* C16: under every interleaving of the spawn, tick and purge timers each
\* event runs alone. A tick adds no vehicle and purges no record between its
\* driving and its removal phase, so each list index collected for removal
\* is the place, in the list the removal phase works on, of the vehicle whose
\* commit failed, and exactly those vehicles are removed; a spawn only adds
\* one vehicle; a purge touches neither the grid nor the vehicle list.
C16_TimerEventsAreAtomic ==
    [][ /\ now' # now =>
              /\ nextId' = nextId
              /\ StartsWith(trails', trails)
              /\ StartsWith(completedCars', completedCars)
              /\ \A i \in 1..Len(log') :
                     /\ log'[i].index + 1 \in 1..Len(cars)
                     /\ cars[log'[i].index + 1] = log'[i].id
                     /\ log'[i].ret = -1 <=> log'[i].id \notin OnRoad'
              /\ OnRoad' \subseteq OnRoad
        /\ nextId' # nextId =>
              /\ now' = now
              /\ cars' = Append(cars, nextId)
              /\ \A id \in OnRoad : car'[id] = car[id] /\ CellsOf(id)' = CellsOf(id)
              /\ trails' = trails /\ completedCars' = completedCars
              /\ log' = log
        /\ (now' = now /\ nextId' = nextId) =>
              /\ roadSpace' = roadSpace /\ cars' = cars /\ car' = car
              /\ log' = log ]_vars

\* A tick removed the first vehicle of the list, whose commit failed, and
\* kept the second, after both were spawned
C16_Witness ==
    /\ \E i \in 1..Len(log) : log[i].ret = -1 /\ log[i].index = 0
    /\ \E i \in 1..Len(log) : log[i].ret # -1 /\ log[i].index = 1
                               /\ log[i].id \in OnRoad
    /\ Len(trails) = 1
    /\ nextId = MaxCars + 1

\* C20: at any time, however ticks and purges interleave, getCarsPerSecond is
\* the number of trail records that expire later than the current time
\* divided by the 10 seconds of the retention window; a record whose expiry
\* has passed is not counted.
C20_ThroughputCountsUnexpired ==
    getCarsPerSecond(trails) =
        (1000 * Cardinality({ k \in 1..Len(trails) : trails[k] > now }))
            \div (CAR_TRAIL_LIFESPAN \div 1000)

----------------------------------------------------------------------------
(* Properties of the scan *)

\* Cell p of laneData is of the class targetSpace
OfClass(laneData, p, targetSpace) ==
    IF targetSpace = All THEN laneData[p] # null
    ELSE IF targetSpace = Blockage THEN laneData[p] = BLOCKED
    ELSE isCar(laneData[p])

\* C17: getDistance returns the number of cells skipped, starting at the cell
\* after from, up to the first cell of the target class (All: not empty,
\* Blockage: a blockage, Cars: a vehicle); 100 when no cell from there to the
\* end of the lane is of the class; -2 when from is the last cell or beyond.
C17_DistanceIsOffsetOfFirst ==
    probe.fn = "getDistance" =>
        LET laneData == probe.in[1]
            from == probe.in[2]
            out == probe.out[1]
        IN  IF from >= ROAD_WIDTH - 1 THEN out = -2
            ELSE IF \E p \in (from + 1)..(ROAD_WIDTH - 1) :
                        OfClass(laneData, p, probe.in[3])
            THEN /\ out \in 0..(ROAD_WIDTH - 1)
                 /\ OfClass(laneData, from + 1 + out, probe.in[3])
                 /\ \A q \in (from + 1)..(from + out) :
                        ~OfClass(laneData, q, probe.in[3])
            ELSE out = 100

\* The scan for a blockage went past a vehicle and stopped at the blockage
C17_Witness ==
    /\ probe.fn = "getDistance"
    /\ probe.in[3] = Blockage
    /\ probe.in[2] = 0
    /\ isCar(probe.in[1][20])
    /\ probe.out[1] = BLOCK_START - 1

\* The scan for a vehicle found none in the cells left and returned 100
C17_WitnessFar ==
    /\ probe.fn = "getDistance"
    /\ probe.in[3] = Cars
    /\ isCar(probe.in[1][20])
    /\ probe.in[2] = 20
    /\ probe.out[1] = 100

\* C19: called with a lane index outside the grid the decision helpers raise
\* nothing and return the permissive default: getDistance the far value, at
\* least the length of a lane; getMergeUrgency 1.0; canMerge false;
\* checkUnderCarLeftQuota true.
C19_OutsideGridGivesDefaults ==
    probe.fn = "outside" =>
        /\ probe.out[1] >= ROAD_WIDTH
        /\ probe.out[2] = 1000
        /\ probe.out[3] = 0
        /\ probe.out[4] = 1

\* What the helpers do return outside the grid: getDistance -1,
\* getMergeUrgency 1.0, checkUnderCarLeftQuota true, and canMerge false
\* unless the lane left of the car is outside the grid too
OutsideGridReturns ==
    probe.fn = "outside" =>
        /\ probe.out[1] = -1
        /\ probe.out[2] = 1000
        /\ probe.out[3] = IF probe.in[1] > Cardinality(DOMAIN roadSpace)
                          THEN Raised ELSE 0
        /\ probe.out[4] = 1

----------------------------------------------------------------------------
(* Properties of a road the constructor refused *)

\* C18: a road constructed with fewer than 2 lanes or with as many blocked
\* lanes as lanes or more has no lane, no blocked lane and no vehicle, and
\* stays so under every later addCar and driveCars call: addCar inserts
\* nothing and no record is ever written.
C18_RefusedRoadStaysEmpty ==
    (probe.fn = "Road" /\ (probe.in[1] < 2 \/ probe.in[2] >= probe.in[1])) =>
        /\ DOMAIN roadSpace = {}
        /\ blockedLanes = 0
        /\ cars = <<>>
        /\ \A id \in CarIds : car[id] = NoCar
        /\ trails = <<>>
        /\ completedCars = <<>>
        /\ log = <<>>
        /\ nextId = 1
        /\ call.op = "addCar" => call.ret = -1

\* On a road constructed with 3 lanes, all 3 blocked, addCar was called and
\* driveCars ran several times
C18_Witness ==
    /\ probe.fn = "Road"
    /\ probe.in = <<3, 3>>
    /\ call.op = "addCar"
    /\ call.ret = -1
    /\ now > 4000
    /\ cars = <<>>

----------------------------------------------------------------------------
(* Properties of the fairness score *)

\* C21: getFairness returns exactly 1 when fewer than 2 completion records
\* are held or the mean of their travel durations is 0; in these cases it
\* returns a number, never the result of 0 / 0.
C21_FairnessOfDegenerateIsOne ==
    probe.fn = "getFairness" =>
        /\ probe.out[1] # NaN
        /\ ( \/ Len(probe.in) < 2
             \/ \A k \in 1..Len(probe.in) : probe.in[k] = 0 )
           => probe.out[1] = 1000

\* getFairness returned 1 for three records of travel duration 0
C21_Witness ==
    /\ probe.fn = "getFairness"
    /\ probe.in = <<0, 0, 0>>
    /\ probe.out[1] = 1000

\* C22: for the completion records a run of the simulation holds, getFairness
\* is 1 / (1 + population standard deviation / mean) of their travel
\* durations, and lies in (0, 1]. For two records of durations a and b the
\* standard deviation is |a - b| / 2 and the mean (a + b) / 2, so the value
\* is (a + b) / (2 * max(a, b)); for fewer records it is 1.
C22_FairnessIsInverseOfDispersion ==
    /\ getFairness(completedCars) \in 1..1000
    /\ Len(completedCars) < 2 => getFairness(completedCars) = 1000
    /\ Len(completedCars) = 2 =>
          getFairness(completedCars) =
              (1000 * (completedCars[1].travelTime + completedCars[2].travelTime))
              \div (2 * Max2(completedCars[1].travelTime,
                             completedCars[2].travelTime))
    /\ \A k \in 1..Len(completedCars) : completedCars[k].travelTime >= 0

\* Two vehicles with different travel durations have left the road and the
\* fairness is below 1
C22_Witness ==
    /\ Len(completedCars) = 2
    /\ completedCars[1].travelTime # completedCars[2].travelTime
    /\ getFairness(completedCars) \in 1..999

----------------------------------------------------------------------------
(* Properties of one tick *)

\* C23: a vehicle that a tick leaves on the road is, after its forward move,
\* at min(max(0, floor(distance / cell length) - 1), position before the
\* move + number of empty cells directly ahead of it in the lane it is in
\* after its merge), so it lands neither on nor beyond a cell that holds a
\* vehicle or a blockage; a vehicle leaves the road only with every cell
\* ahead of it empty.
C23_ForwardMoveStopsAtObstacle ==
    \A i \in 1..Len(log) :
        IF log[i].ret # -1
        THEN /\ log[i].xAfter =
                    Min2(Max2(0, (log[i].distance \div (1000 * spaceSize)) - 1),
                         log[i].x + log[i].ahead)
             /\ log[i].xAfter \in log[i].x..(log[i].x + log[i].ahead)
        ELSE /\ log[i].x + log[i].ahead = ROAD_WIDTH - 1
             /\ (log[i].distance \div (1000 * spaceSize)) - 1 >= ROAD_WIDTH

\* A vehicle moved forward up to the cell right behind an obstacle, short of
\* the cell its distance asks for
C23_Witness ==
    \E i \in 1..Len(log) :
        /\ log[i].ret = 0
        /\ log[i].xAfter > log[i].x
        /\ log[i].xAfter = log[i].x + log[i].ahead
        /\ (log[i].distance \div (1000 * spaceSize)) - 1 > log[i].xAfter

\* C24: in a tick every vehicle that is in the list when the tick starts is
\* driven exactly once, the vehicles being taken by lane ascending and,
\* within a lane, by position ascending, as lanes and positions are when
\* the tick starts; a merge or a move during the tick makes no vehicle be
\* driven twice or skipped.
C24_EachDrivenOnceInOrder ==
    [][ now' # now =>
          /\ Len(log') = Len(cars)
          /\ { log'[i].id : i \in 1..Len(log') } = OnRoad
          /\ \A i \in 1..Len(log'), j \in 1..Len(log') :
                 i < j =>
                    /\ log'[i].id # log'[j].id
                    /\ \/ car[log'[i].id].laneNumber < car[log'[j].id].laneNumber
                       \/ /\ car[log'[i].id].laneNumber
                                = car[log'[j].id].laneNumber
                          /\ car[log'[i].id].lanePosX
                                < car[log'[j].id].lanePosX ]_vars

\* The vehicle added to the list last was driven first, and the other merged
\* in the same tick
C24_Witness ==
    /\ Len(log) = 2
    /\ log[1].index = 1
    /\ log[2].index = 0
    /\ log[2].merged

----------------------------------------------------------------------------
(* Properties of the merge decision *)

\* The vehicles within the 10 cells around position laneX of the lane left
\* of lane
NearbyLeft(lane, laneX) ==
    { j \in OnRoad : /\ car[j].laneNumber = lane - 1
                     /\ car[j].lanePosX \in (laneX - 5)..(laneX + 4) }

\* The sum of the speeds of the vehicles S
RECURSIVE SpeedSum(_)
SpeedSum(S) ==
    IF S = {} THEN 0
    ELSE LET j == CHOOSE k \in S : TRUE IN car[j].speed + SpeedSum(S \ {j})

\* The desired merge space, in thousandths of a cell, of a vehicle of
\* aggressiveness 0 or 1 at speed speed with urgency u and the nearby
\* left-lane vehicles near: the larger of the trait minimum and the least
\* whole number of cells that covers speed x gap seconds x urgency, and 2
\* cells when that is more and the nearby vehicles average 1 ft/s or less
DesiredSpace(c, speed, u, near) ==
    LET gapU == Mul(getDesiredMergeGap(c), u)
        cells == CHOOSE k \in 0..ROAD_WIDTH :
                    /\ k * spaceSize * 1000000 >= speed * gapU
                    /\ (k - 1) * spaceSize * 1000000 < speed * gapU
        traitMin == IF c.aggressiveness = 0 THEN MERGE_SPACE_LOW
                    ELSE MERGE_SPACE_HIGH
        wanted == Max2(traitMin, 1000 * cells)
    IN  IF near # {} /\ SpeedSum(near) <= 1000 * Cardinality(near)
           /\ wanted > 2000
        THEN 2000 ELSE wanted

\* ahead + behind + beside of the left-lane survey of c
SurveyTotal(c) ==
    LET spaces == getLeftOpenSpaces(roadSpace, c.laneNumber, c.lanePosX)
    IN  spaces.left_ahead + spaces.left_behind + spaces.left_beside

\* C25: canMerge is true exactly when ahead + behind + beside of the
\* vehicle's left-lane survey is at least its desired merge space, whatever
\* its speed and the urgency.
C25_CanMergeIffEnoughSpace ==
    \A id \in OnRoad :
        /\ canMerge(roadSpace, car, car[id]) <=>
               1000 * SurveyTotal(car[id]) >=
                   DesiredSpace(car[id], car[id].speed,
                                getMergeUrgency(roadSpace, car[id]),
                                NearbyLeft(car[id].laneNumber, car[id].lanePosX))
        /\ \A speed \in Speeds, u \in Urgencies :
               canMergeUrgent(roadSpace, car, [car[id] EXCEPT !.speed = speed], u)
               <=> 1000 * SurveyTotal(car[id]) >=
                       DesiredSpace(car[id], speed, u,
                                    NearbyLeft(car[id].laneNumber,
                                               car[id].lanePosX))

\* A vehicle has some space in its left-lane survey but less than it
\* desires, while a standing vehicle nearby in the left lane lets it merge
\* with 2 cells had it more speed
C25_Witness ==
    \E id \in OnRoad :
        /\ SurveyTotal(car[id]) >= 2
        /\ NearbyLeft(car[id].laneNumber, car[id].lanePosX) # {}
        /\ canMergeUrgent(roadSpace, car,
                          [car[id] EXCEPT !.speed = MAX_SPEED], 1000)
        /\ 1000 * SurveyTotal(car[id]) <
               getDesiredMergeSpace([car[id] EXCEPT !.speed = MAX_SPEED],
                                    spaceSize, 1000)

\* A vehicle has some space in its left-lane survey, less than it desires,
\* and canMerge is false
C25_WitnessRefused ==
    \E id \in OnRoad :
        /\ SurveyTotal(car[id]) >= 1
        /\ ~canMerge(roadSpace, car, car[id])

\* The number of empty cells of laneData right before cell laneX, down to the
\* first cell that is not empty or to the start of the lane
emptyBehind(laneData, laneX) ==
    Cardinality({ p \in 0..(laneX - 1) :
                    \A q \in p..(laneX - 1) : laneData[q] = null })

\* C26: the left-lane survey of a vehicle is zero in its three quantities
\* when the vehicle is in lane 0 or the cell beside it in the left lane is not
\* empty; otherwise beside is 1, ahead is the number of empty cells in a row
\* right ahead of the beside cell and behind the number of empty cells in a
\* row right behind it, the beside cell being counted in neither.
C26_SurveyCountsEmptyRuns ==
    \A id \in OnRoad :
        LET lane == car[id].laneNumber
            laneX == car[id].lanePosX
            spaces == getLeftOpenSpaces(roadSpace, lane, laneX)
        IN  IF lane = 0 \/ roadSpace[lane - 1][laneX] # null
            THEN /\ spaces.left_ahead = 0
                 /\ spaces.left_beside = 0
                 /\ spaces.left_behind = 0
            ELSE /\ spaces.left_beside = 1
                 /\ spaces.left_ahead = emptyAhead(roadSpace[lane - 1], laneX)
                 /\ spaces.left_behind = emptyBehind(roadSpace[lane - 1], laneX)

\* The vehicle just behind the merge window of vehicle m in the lane left of
\* it: the one checkUnderCarLeftQuota looks up (lines 247-257), or 0
RearOf(m) ==
    LET lane == car[m].laneNumber
        laneX == car[m].lanePosX
        spaces == getLeftOpenSpaces(roadSpace, lane, laneX)
    IN  IF lane <= 0 \/ spaces.left_behind <= 0
           \/ laneX - spaces.left_behind < 0
        THEN 0
        ELSE IF isCar(roadSpace[lane - 1][laneX - spaces.left_behind])
             THEN roadSpace[lane - 1][laneX - spaces.left_behind]
             ELSE 0

\* The cars cd with the carsLetIn count and the cooperation of vehicle r set
WithRear(cd, r, carsLetIn, cooperation) ==
    [cd EXCEPT ![r].carsLetIn = carsLetIn, ![r].cooperation = cooperation]

\* Vehicle m merges in the tick that driveCars runs next on the cars cd
MergesInTick(cd, m) ==
    \E t \in { driveCars(roadSpace, cd, cars, blockedLanes, trails,
                         completedCars, now + 2000) } :
        \E i \in 1..Len(t.log) : t.log[i].id = m /\ t.log[i].merged

\* Counts of vehicles let in that the states compared give the rear vehicle
LetIns == {0, 1, 2}

----------------------------------------------------------------------------
(* Properties of the blockage and of the states of the vehicles *)

\* C28: the blockage cells are the cells 40 to 49 of the blockedLanes lanes
\* of highest index, at construction and after every spawn and tick: no
\* vehicle is ever in one of these cells and none of them is ever cleared;
\* every other cell is empty while the road has no vehicle.
C28_BlockageIsFixed ==
    /\ \A lane \in DOMAIN roadSpace, x \in 0..(ROAD_WIDTH - 1) :
           roadSpace[lane][x] = BLOCKED
           <=> ( /\ lane >= Cardinality(DOMAIN roadSpace) - blockedLanes
                 /\ x >= BLOCK_START )
    /\ \A id \in OnRoad :
           roadSpace[car[id].laneNumber][car[id].lanePosX] # BLOCKED
    /\ cars = <<>> =>
           \A lane \in DOMAIN roadSpace, x \in 0..(ROAD_WIDTH - 1) :
               roadSpace[lane][x] \in {null, BLOCKED}
    /\ blockedLanes \in 1..(Cardinality(DOMAIN roadSpace) - 1)

\* A vehicle stands in the cell before the blockage of its lane while another
\* has merged out of a blocked lane
C28_Witness ==
    /\ \E id \in OnRoad :
           /\ car[id].lanePosX = BLOCK_START - 1
           /\ roadSpace[car[id].laneNumber][BLOCK_START] = BLOCKED
    /\ \E id \in OnRoad :
           /\ car[id].laneNumber < car[id].startLane
           /\ car[id].lanePosX >= BLOCK_START - 1

\* The records of the vehicles that were inviting when effectSpeed took
\* their desired distance
InvitingDrives == { i \in DOMAIN log : ~log[i].first /\ log[i].inviting }

\* The vehicle of record r as it was when it was driven
Before(r) == [car[r.id] EXCEPT !.speed = r.speedBefore]

\* The desired gap of an inviting vehicle is its merge-space requirement at
\* urgency 1 and cell length 15, in feet
InvitingGapIsMergeSpace ==
    \A i \in InvitingDrives :
        /\ cars # <<>> /\ log[i].id \in OnRoad
        /\ log[i].gap = spaceSize * getDesiredMergeSpace(Before(log[i]), 15, 1000)

\* C29: the desired gap an inviting vehicle uses for speed control is its
\* merge-space requirement in feet, and this gap is at most the vehicle's
\* following distance, speed times following-seconds.
C29_InvitingGapWithinFollowing ==
    \A i \in InvitingDrives :
        /\ log[i].gap = spaceSize * getDesiredMergeSpace(Before(log[i]), 15, 1000)
        /\ log[i].gap <= Mul(log[i].speedBefore,
                             car[log[i].id].followingDistance)

\* An inviting vehicle at full speed whose following distance is the larger
InvitingWithinFollowing ==
    \E i \in InvitingDrives :
        /\ log[i].speedBefore = MAX_SPEED
        /\ log[i].gap <= Mul(log[i].speedBefore,
                             car[log[i].id].followingDistance)

\* C30: in every reachable state the state of each vehicle is Default or
\* Merge: no spawn and no tick assigns Yield or Right, neither to a vehicle
\* on the road nor to one the road has dropped.
C30_StateIsDefaultOrMerge ==
    /\ \A id \in CarIds : car[id].state \in {Default, Merge}
    /\ \A i \in DOMAIN log : log[i].state \in {Default, Merge}

\* A tick has set one vehicle to Merge and another back to Default after it
\* merged out of its blocked lane
C30_Witness ==
    /\ \E id \in OnRoad : car[id].state = Merge /\ car[id].indicator
    /\ \E id \in OnRoad :
           /\ car[id].laneNumber < car[id].startLane
           /\ car[id].state = Default
           /\ \E i \in DOMAIN log : log[i].id = id /\ log[i].state = Default

----------------------------------------------------------------------------
(* Properties of the timers of the Simulation *)

\* The timers set whose callback is fn
TimersOf(fn) == { t \in sim.timers : t.fn = fn }

\* C31: under every sequence of start, stop and reset calls at most one
\* spawn timer and at most one tick timer are set, and they are set exactly
\* when running is true; start while running sets no timer, stop clears
\* both and changes nothing when the simulation is stopped, and reset leaves
\* running as it was before the call.
C31_TimersFollowRunning ==
    /\ [] /\ Cardinality(TimersOf("generateRandomCar")) <= 1
          /\ Cardinality(TimersOf("simulationUpdate")) <= 1
          /\ sim.running <=>
                 /\ TimersOf("generateRandomCar")
                        = {Timer(sim.carIntervalId, "generateRandomCar")}
                 /\ TimersOf("simulationUpdate")
                        = {Timer(sim.simIntervalId, "simulationUpdate")}
          /\ ~sim.running =>
                 /\ TimersOf("generateRandomCar") = {}
                 /\ TimersOf("simulationUpdate") = {}
    /\ [][ sim'.calls # sim.calls =>
             /\ (sim'.last = "start" /\ sim.running) =>
                    /\ sim'.timers = sim.timers
                    /\ sim'.running
             /\ (sim'.last = "start" /\ ~sim.running) => sim'.running
             /\ sim'.last = "stop" =>
                    /\ ~sim'.running
                    /\ TimersOf("generateRandomCar")' = {}
                    /\ TimersOf("simulationUpdate")' = {}
                    /\ ~sim.running => sim'.timers = sim.timers
             /\ sim'.last = "reset" => sim'.running = sim.running ]_vars

\* Four calls were made, the last of them a reset of the running simulation,
\* which set its timers anew, and cars have been spawned and driven since
C31_Witness ==
    /\ sim.calls = MaxCalls
    /\ sim.last = "reset"
    /\ sim.running
    /\ sim.nextTimer >= 7
    /\ cars # <<>>
    /\ log # <<>>

----------------------------------------------------------------------------
(* Properties of the life of a vehicle *)

\* The vehicles that the step takes off the road
Leaving == { id \in OnRoad : \A k \in DOMAIN cars' : cars'[k] # id }

\* C32: a vehicle is removed in a tick only if its desired position
\* floor(distance / cell length) - 1 is at or beyond the grid width and no
\* obstacle lies ahead of it in its lane: its forward commit failed for the
\* target being beyond the lane, never for an occupied cell, and its lane
\* is not a blocked one.
C32_RemovedOnlyPastTheEnd ==
    [][ \A id \in Leaving :
          \E i \in DOMAIN log' :
             /\ log'[i].id = id
             /\ log'[i].ret = -1
             /\ (log'[i].distance \div (1000 * spaceSize)) - 1 >= ROAD_WIDTH
             /\ log'[i].ahead = ROAD_WIDTH - 1 - log'[i].xAfter
             /\ log'[i].xAfter = log'[i].x
             /\ log'[i].laneAfter < Cardinality(DOMAIN roadSpace) - blockedLanes
             /\ \A x \in log'[i].x..(ROAD_WIDTH - 1) :
                    roadSpace'[log'[i].laneAfter][x] = null ]_vars

\* A vehicle that merged in this tick or stood beside the blockage was
\* removed past the end of its lane while another vehicle stays on the road
C32_Witness ==
    /\ \E i \in DOMAIN log :
           /\ log[i].ret = -1
           /\ log[i].id \notin OnRoad
           /\ log[i].laneAfter < log[i].lane \/ log[i].x >= BLOCK_START
    /\ cars # <<>>

\* The records of the vehicles that ran their decision logic in a lane that
\* is not blocked
OpenLaneDrives ==
    { i \in DOMAIN log :
        /\ ~log[i].first
        /\ log[i].lane < Cardinality(DOMAIN roadSpace) - blockedLanes }

\* C33: a vehicle whose lane has no blockage ahead of it, at whatever
\* position 0..49 of a lane that is not blocked, the last cell included,
\* never enters the Merge state and never turns its signal on.
C33_OpenLaneNeverMerges ==
    /\ \A i \in OpenLaneDrives : log[i].state = Default
    /\ \A id \in OnRoad :
           car[id].startLane < Cardinality(DOMAIN roadSpace) - blockedLanes =>
               /\ car[id].state = Default
               /\ ~car[id].indicator

\* Before the last cell of a lane that is not blocked no vehicle enters the
\* Merge state
OpenLaneBeforeLastCell ==
    \A i \in OpenLaneDrives :
        log[i].x < ROAD_WIDTH - 1 => log[i].state = Default

\* C34: vehicles are conserved under spawns and ticks with no purge: the
\* number of successful spawns is the number of vehicles in the list plus
\* the number of trail records appended, as many completion records as
\* trail records were appended, and no vehicle is twice in the list.
C34_VehiclesAreConserved ==
    /\ nextId - 1 = Len(cars) + Len(trails)
    /\ Len(completedCars) = Len(trails)
    /\ \A i \in DOMAIN cars, j \in DOMAIN cars : cars[i] = cars[j] => i = j
    /\ Cardinality({ id \in CarIds : car[id] # NoCar }) = Len(cars)

\* Of two vehicles spawned one has left the road and one is in the list
C34_Witness ==
    /\ nextId = 3
    /\ Len(cars) = 1
    /\ Len(trails) = 1
    /\ Len(completedCars) = 1

\* Both vehicles spawned have left the road in one tick
C34_WitnessBoth ==
    /\ nextId = 3
    /\ cars = <<>>
    /\ Len(trails) = 2
    /\ Len(log) = 2
    /\ \A i \in DOMAIN log : log[i].ret = -1

\* C35: the lane index of a vehicle never increases: in a tick it stays or
\* decreases by exactly 1 (one merge a vehicle a tick at most), the merge
\* itself leaves the position as it is, and a vehicle in lane 0 never
\* changes its lane.
C35_LaneOnlyDecreasesByOne ==
    [][ \A id \in OnRoad :
          /\ id \in OnRoad' =>
                 /\ car'[id].laneNumber
                        \in {car[id].laneNumber, car[id].laneNumber - 1}
                 /\ car[id].laneNumber = 0 => car'[id].laneNumber = 0
          /\ now' # now =>
                 /\ Cardinality({ i \in DOMAIN log' : log'[i].id = id }) = 1
                 /\ \A i \in DOMAIN log' :
                        log'[i].id = id =>
                            /\ log'[i].lane = car[id].laneNumber
                            /\ log'[i].x = car[id].lanePosX
                            /\ log'[i].laneAfter
                                   \in {log'[i].lane, log'[i].lane - 1}
                            /\ log'[i].merged
                                   <=> log'[i].laneAfter = log'[i].lane - 1
                            /\ log'[i].merged => log'[i].xDriven = log'[i].x
                            /\ log'[i].lane = 0 => ~log'[i].merged ]_vars

\* A vehicle spawned in lane 2 has merged twice, the second time in the last
\* tick, in which a vehicle spawned in lane 0 was driven as well
C35_Witness ==
    \E id \in OnRoad, o \in OnRoad :
        /\ car[id].startLane = 2
        /\ car[id].laneNumber = 0
        /\ \E i \in DOMAIN log : log[i].id = id /\ log[i].merged
        /\ car[o].startLane = 0
        /\ \E i \in DOMAIN log : log[i].id = o /\ ~log[i].first

\* C36: the first tick after a vehicle is spawned only records the time of
\* its last update: its drive leaves its lane, position, speed, state,
\* signal, distance and carsLetIn and every grid cell as they were (kept:
\* the grid and every field of every car but lastMoved are the same after
\* the drive as before).
C36_FirstDriveOnlyStamps ==
    [][ \A i \in DOMAIN log' :
          (now' # now /\ log'[i].first) =>
              /\ log'[i].kept
              /\ log'[i].ret = 1
              /\ ~log'[i].merged
              /\ log'[i].id \in OnRoad /\ log'[i].id \in OnRoad'
              /\ car[log'[i].id].lastMoved = -1
              /\ car'[log'[i].id].lastMoved = now'
              /\ car'[log'[i].id].laneNumber = car[log'[i].id].laneNumber
              /\ car'[log'[i].id].lanePosX = car[log'[i].id].lanePosX
              /\ car'[log'[i].id].speed = car[log'[i].id].speed
              /\ car'[log'[i].id].state = car[log'[i].id].state
              /\ car'[log'[i].id].indicator = car[log'[i].id].indicator
              /\ car'[log'[i].id].distance = car[log'[i].id].distance ]_vars

\* A vehicle had its first drive in a tick in which another vehicle, within
\* its merge distance, was driven and moved
C36_Witness ==
    \E i \in DOMAIN log, j \in DOMAIN log :
        /\ log[i].first
        /\ car[log[i].id].lastMoved = now
        /\ ~log[j].first
        /\ log[j].state = Merge
        /\ log[j].xAfter > log[j].x

============================================================================
